---- MODULE Spec2Model ----
(***************************************************************************)
(* LoadBot: the load execution engine (engine.ts), the global rate limiter *)
(* (safety), the metrics aggregator (metrics), the threshold evaluator     *)
(* (verdict), the load-pattern functions and the history ring.             *)
(*                                                                         *)
(* The engine runs on a single-threaded event loop: the code between two   *)
(* awaits runs without interleaving.  Every action below is one such run:  *)
(* from the resumption of a callback (a timer firing, a fetch settling) to *)
(* the next suspension, promise reactions (microtasks) included.           *)
(*                                                                         *)
(* Number representation.  All times are integer milliseconds.  Values the *)
(* code rounds to two decimals (errorRatePercentage, p95ResponseTime, ...) *)
(* are held as integers in HUNDREDTHS (the value times 100); rounding is   *)
(* Math.round, i.e. floor(x + 1/2), computed exactly on rationals.         *)
(***************************************************************************)
EXTENDS Integers, Sequences, FiniteSets, TLC

VARIABLES
    now,                      \* Date.now(), in ms
    config,                   \* the config passed to startLoadTest ({} before the call)
    test,                     \* the store's entry for the test: {} or {LoadTestState}
    stopRef,                  \* stopRef.stop
    workers,                  \* per worker index: where the async function worker() is suspended
    recentRequestTimestamps,  \* the rate limiter's sliding window
    spikeTimer,               \* the spike-spawn setTimeout: "none" | "pending" | "fired", deadline
    sched,                    \* position of startLoadTest's promise chain
    history,                  \* the history ring
    client,                   \* a caller of the library: what it holds and has done
    probe                     \* the caller's most recent call: operation, arguments, result

vars == <<now, config, test, stopRef, workers, recentRequestTimestamps,
          spikeTimer, sched, history, client, probe>>

\* The state of the engine and the rate limiter.
engineVars == <<now, config, test, stopRef, workers, recentRequestTimestamps,
                spikeTimer, sched>>

-----------------------------------------------------------------------------
(* Bounds of the model *)

\* Clock granularity: Date.now() is observed at multiples of MsPerTick.
MsPerTick == 1000

\* The rate limit, scaled down from the program's 500 so that the window fills.
GLOBAL_RATE_LIMIT_RPS == 2

\* addToHistory is called at most MaxAdds times (more than MAX_HISTORY).
MaxAdds == 102

\* The caller reads the history while it holds at most MaxClientLen records,
\* queries it with id lists of at most MaxQueryLen ids, and changes what it was
\* handed at most MaxMutations times.
MaxClientLen == 3
MaxQueryLen == 2
MaxMutations == 2

\* The pure functions are called with durations up to MaxDuration seconds and
\* up to MaxUsers concurrent users; with result lists of up to MaxHi slow
\* successes, MaxLo fast successes, MaxFail HTTP failures and MaxTimeouts
\* timeouts (MaxLo + MaxHi exceeds 20, where the 95th percentile leaves the
\* last interval of the sorted times); thresholds are evaluated on lists of up
\* to MaxFew results of each kind.
MaxDuration == 3
MaxUsers == 3
MaxHi == 1
MaxLo == 20
MaxFail == 8
MaxTimeouts == 3
MaxFew == 2

-----------------------------------------------------------------------------
(* Program constants *)

WINDOW_MS == 1000
RATE_BACKOFF_MS == 20
MASK_SLEEP_MS == 100
MAX_HISTORY == 100

-----------------------------------------------------------------------------
(* Optional values: undefined is {}, a defined value v is {v}. *)

None == {}
Some(v) == {v}
IsSome(o) == o # {}
Get(o) == CHOOSE v \in o : TRUE

Max(a, b) == IF a >= b THEN a ELSE b
Min(a, b) == IF a <= b THEN a ELSE b

\* Math.round(num / den) for num >= 0, den > 0.
RoundDiv(num, den) == (2 * num + den) \div (2 * den)

\* s.reduce((a, b) => a + b, 0)
SumSeq(s) ==
    CHOOSE out \in
      { LET sum[i \in 0..Len(v)] == IF i = 0 THEN 0 ELSE sum[i - 1] + v[i]
        IN  sum[Len(v)] :
        v \in {s} } : TRUE

\* [...responseTimes].sort((a, b) => a - b): ascending and stable.  The element
\* at index j goes to position Rank(s, j).
Rank(s, j) ==
    Cardinality({k \in 1..Len(s) : s[k] < s[j] \/ (s[k] = s[j] /\ k < j)}) + 1

\* A plausible slip: the copy is left in completion order.
SortAscNotSorted(s) == s

SortAsc(s) ==
    CHOOSE out \in
      { [i \in 1..Len(v) |-> v[CHOOSE j \in 1..Len(v) : Rank(v, j) = i]] :
        v \in {s} } : TRUE

-----------------------------------------------------------------------------
(* metrics: computeMetrics and percentile *)

\* results.filter((r) => r.success).map((r) => r.responseTimeMs)
RECURSIVE SuccessTimes(_)
SuccessTimes(results) ==
    IF results = <<>> THEN <<>>
    ELSE IF Head(results).success
         THEN <<Head(results).responseTimeMs>> \o SuccessTimes(Tail(results))
         ELSE SuccessTimes(Tail(results))

\* A plausible slip: the value at the lower rank, without interpolation.
percentileLowerRank(sortedValues, pct) ==
    IF Len(sortedValues) = 0 THEN 0
    ELSE sortedValues[((Len(sortedValues) - 1) * pct) \div 100 + 1] * 100

\* percentile(sortedValues, p) for p = pct/100, in hundredths.
\* index = (L-1)*p is held as index*100 = (L-1)*pct; sortedValues is 0-based in
\* the code and 1-based here.
percentile(sortedValues, pct) ==
    IF Len(sortedValues) = 0 THEN 0
    ELSE LET idx100 == (Len(sortedValues) - 1) * pct
             lower  == idx100 \div 100
             upper  == IF idx100 % 100 = 0 THEN lower ELSE lower + 1
         IN  IF lower = upper THEN sortedValues[lower + 1] * 100
             ELSE sortedValues[lower + 1] * 100
                    + (idx100 % 100) * (sortedValues[upper + 1] - sortedValues[lower + 1])

\* A plausible slip: count as failed only the results that carry an error tag.
CountFailedByErrorTag(results, successful) ==
    Cardinality({i \in 1..Len(results) : results[i].error # None})

\* failed = total - successful
CountFailed(results, successful) == Len(results) - successful

\* computeMetrics(results, durationSeconds), with durationSeconds = durationMs/1000.
\* Rates and latencies are in hundredths.
\* (CHOOSE out \in { e : x \in {v} } : TRUE is e with x bound to the value v.)
computeMetrics(results, durationMs) ==
    CHOOSE out \in
      { [ totalRequests         |-> total,
          successfulRequests    |-> successful,
          failedRequests        |-> CountFailed(results, successful),
          errorRatePercentage   |-> IF total > 0
                                    THEN RoundDiv(CountFailed(results, successful) * 10000, total)
                                    ELSE 0,
          requestsPerSecond     |-> IF durationMs > 0
                                    THEN RoundDiv(total * 100000, durationMs) ELSE 0,
          avgResponseTime       |-> IF Len(responseTimes) > 0
                                    THEN RoundDiv(SumSeq(responseTimes) * 100,
                                                  Len(responseTimes))
                                    ELSE 0,
          minResponseTime       |-> IF Len(sorted) > 0 THEN sorted[1] * 100 ELSE 0,
          maxResponseTime       |-> IF Len(sorted) > 0 THEN sorted[Len(sorted)] * 100 ELSE 0,
          p95ResponseTime       |-> IF Len(sorted) > 0 THEN percentile(sorted, 95) ELSE 0,
          p99ResponseTime       |-> IF Len(sorted) > 0 THEN percentile(sorted, 99) ELSE 0,
          timeoutCount          |-> timeoutCount,
          timeoutRatePercentage |-> IF total > 0 THEN RoundDiv(timeoutCount * 10000, total) ELSE 0 ] :
        total \in {Len(results)},
        successful \in {Cardinality({i \in 1..Len(results) : results[i].success})},
        timeoutCount \in {Cardinality({i \in 1..Len(results) :
                                          results[i].error = Some("timeout")})},
        responseTimes \in {SuccessTimes(results)},
        sorted \in {SortAsc(SuccessTimes(results))} } : TRUE

\* The metrics startLoadTest initialises the state with.
ZeroMetrics ==
    [ totalRequests |-> 0, successfulRequests |-> 0, failedRequests |-> 0,
      errorRatePercentage |-> 0, requestsPerSecond |-> 0, avgResponseTime |-> 0,
      minResponseTime |-> 0, maxResponseTime |-> 0, p95ResponseTime |-> 0,
      p99ResponseTime |-> 0, timeoutCount |-> 0, timeoutRatePercentage |-> 0 ]

\* A plausible slip: the bands include their lower ends.
LegacyVerdictInclusive(metrics) ==
    IF metrics.errorRatePercentage >= 60 * 100 THEN "CRITICAL"
    ELSE IF metrics.errorRatePercentage >= 30 * 100 THEN "UNSTABLE"
    ELSE "OK"

\* The legacy verdict from the error-rate bands.
LegacyVerdict(metrics) ==
    IF metrics.errorRatePercentage > 60 * 100 THEN "CRITICAL"
    ELSE IF metrics.errorRatePercentage > 30 * 100 THEN "UNSTABLE"
    ELSE "OK"

-----------------------------------------------------------------------------
(* verdict: evaluateThresholds and shouldAutoStop *)

(* IEEE 754 double arithmetic, for successRate = (successful / total) * 100.    *)
(* A double is a 53-bit mantissa and an exponent; mantissas are held as bit   *)
(* sequences, most significant bit first, since they exceed the integers.     *)

\* The n such that s * 2^n / t lies in [1, 2), for 0 < s < t.
NormShift(s, t) == CHOOSE n \in 1..30 : s * 2^n >= t /\ s * 2^(n - 1) < t

\* 2^i modulo m, for i <= 60 and m * m within the integers.
RECURSIVE Pow2Mod(_, _)
Pow2Mod(i, m) == IF i <= 20 THEN 2^i % m ELSE (Pow2Mod(i - 20, m) * (2^20 % m)) % m

\* The remainder of the long division of s * 2^NormShift by t after i
\* fraction bits: each bit doubles the remainder, modulo t.
DivRemainder(s, t, i) == ((s * 2^NormShift(s, t) - t) * Pow2Mod(i, t)) % t

\* The first 53 bits of s / t, not yet rounded.
QuotientBits(s, t) ==
    [i \in 1..53 |-> IF i = 1 THEN 1 ELSE (2 * DivRemainder(s, t, i - 2)) \div t]

\* bits + 1, on one more bit.
IncrementBits(bits) ==
    [i \in 1..(Len(bits) + 1) |->
        LET carryIn == \A j \in i..Len(bits) : bits[j] = 1
            bit     == IF i = 1 THEN 0 ELSE bits[i - 1]
        IN  IF carryIn THEN 1 - bit ELSE bit]

\* s / t rounded to nearest, ties to even: a 54-bit mantissa M with
\* fl(s / t) = M * 2^-(52 + NormShift(s, t)).
DivideDoubles(s, t) ==
    CHOOSE out \in
      { IF 2 * rem > t \/ (2 * rem = t /\ q[53] = 1)
        THEN IncrementBits(q)
        ELSE <<0>> \o q :
        q \in {QuotientBits(s, t)}, rem \in {DivRemainder(s, t, 52)} } : TRUE

\* The exponent of the doubles just below the integer limit:
\* 2^b < limit <= 2^(b + 1).
BinadeBelow(limit) ==
    IF limit = 1 THEN -1 ELSE CHOOSE b \in 0..30 : 2^b < limit /\ limit <= 2^(b + 1)

\* The bits of limit * 2^n - 2^(n + b - 53): the midpoint between limit and the
\* double before it, times 2^n (n >= 53).  limit - 1 on 7 bits, then 53 - b
\* ones, then zeros.
MidpointBits(limit, n) ==
    [i \in 1..(7 + n) |->
        IF i <= 7 THEN ((limit - 1) \div 2^(7 - i)) % 2
        ELSE IF i - 7 <= 53 - BinadeBelow(limit) THEN 1 ELSE 0]

\* The number written by bits[from..to], modulo 100.
RECURSIVE BitsMod100(_, _, _)
BitsMod100(bits, from, to) ==
    IF from > to THEN 0
    ELSE IF from = to THEN bits[from]
    ELSE LET half == (from + to) \div 2
         IN  (BitsMod100(bits, from, half) * Pow2Mod(to - half, 100)
                + BitsMod100(bits, half + 1, to)) % 100

\* The remainder of the long division of bits by 100 after i bits.
Div100Remainder(bits, i) == BitsMod100(bits, 1, i)

\* bits divided by 100: the quotient, on as many bits.
Div100Bits(bits) ==
    [i \in 1..Len(bits) |-> (2 * Div100Remainder(bits, i - 1) + bits[i]) \div 100]

\* a < b for bit sequences of the same length.
LessBits(a, b) ==
    \E i \in 1..Len(a) : a[i] < b[i] /\ \A j \in 1..(i - 1) : a[j] = b[j]

\* fl(fl(s / t) * 100) < limit in doubles, for 0 < s < t and 1 <= limit < 100.
\* fl(s / t) = M * 2^-n; its product with 100 rounds below limit exactly when
\* 100 * M is under the midpoint (a tie goes to limit, whose mantissa is even).
TimesHundredBelow(s, t, limit) ==
    CHOOSE out \in
      { \/ LessBits(m, Div100Bits(mid))
        \/ m = Div100Bits(mid) /\ Div100Remainder(mid, Len(mid)) > 0 :
        m \in {[i \in 1..(NormShift(s, t) + 5) |-> 0] \o DivideDoubles(s, t)},
        mid \in {MidpointBits(limit, 52 + NormShift(s, t))} } : TRUE

\* successRate < limit, with successRate = total > 0 ? (successful / total) *
\* 100 : 100.  The double differs from the exact rate by less than 2^-45, and
\* two different rates with denominator total differ by at least 1 / total:
\* only a rate exactly equal to the limit needs the double arithmetic.  A
\* quotient that is a multiple of 1/4 is a double, and so is its product with
\* 100: the comparison is then exact too.
SuccessRateBelow(successful, total, limit) ==
    IF total = 0 THEN 100 < limit
    ELSE IF successful * 100 # limit * total THEN successful * 100 < limit * total
    ELSE IF (4 * successful) % total = 0 THEN FALSE
    ELSE TimesHundredBelow(successful, total, limit)

\* A plausible slip: a latency violation alone fails the run.
thresholdVerdictP95Fails(critical, p95Violated) ==
    IF critical \/ p95Violated THEN "FAIL" ELSE "PASS"

\* verdict after the three checks: FAIL once a critical threshold is violated;
\* a latency violation turns PASS into DEGRADED.
thresholdVerdict(critical, p95Violated) ==
    IF p95Violated
    THEN (IF critical THEN "FAIL" ELSE "DEGRADED")
    ELSE (IF critical THEN "FAIL" ELSE "PASS")

\* thresholds is {} (absent) or {[maxErrorRatePercent, maxP95LatencyMs,
\* minSuccessRatePercent]}, each field optional.  A reason keeps the threshold's
\* name and limit; its message and "actual" are presentation only.
\* (CHOOSE out \in { e : m \in {metrics} } : TRUE is e with m bound to the value
\* of metrics.)
evaluateThresholds(metrics, thresholds, dateNow) ==
    IF ~IsSome(thresholds)
    THEN [verdict |-> "PASS", reasons |-> <<>>, firstViolationAt |-> None]
    ELSE
    CHOOSE out \in {
    LET th == Get(thresholds)
        errViolated ==
            /\ IsSome(th.maxErrorRatePercent)
            /\ m.errorRatePercentage > Get(th.maxErrorRatePercent) * 100
        succViolated ==
            /\ IsSome(th.minSuccessRatePercent)
            /\ SuccessRateBelow(m.successfulRequests, m.totalRequests,
                                Get(th.minSuccessRatePercent))
        p95Violated ==
            /\ IsSome(th.maxP95LatencyMs)
            /\ m.p95ResponseTime > Get(th.maxP95LatencyMs) * 100
        r1 == IF errViolated
              THEN <<[threshold |-> "maxErrorRatePercent",
                      limit |-> Get(th.maxErrorRatePercent)]>>
              ELSE <<>>
        r2 == IF succViolated
              THEN <<[threshold |-> "minSuccessRatePercent",
                      limit |-> Get(th.minSuccessRatePercent)]>>
              ELSE <<>>
        r3 == IF p95Violated
              THEN <<[threshold |-> "maxP95LatencyMs",
                      limit |-> Get(th.maxP95LatencyMs)]>>
              ELSE <<>>
        reasons == r1 \o r2 \o r3
    IN  [ verdict |-> thresholdVerdict(errViolated \/ succViolated, p95Violated),
          reasons |-> reasons,
          firstViolationAt |-> IF Len(reasons) > 0 THEN Some(dateNow) ELSE None ]
    : m \in {metrics} } : TRUE

\* reasons.some(r => r.threshold is maxErrorRatePercent or minSuccessRatePercent)
HasCriticalReason(reasons) ==
    \E i \in 1..Len(reasons) :
        reasons[i].threshold \in {"maxErrorRatePercent", "minSuccessRatePercent"}

\* A plausible slip: stop on any verdict other than PASS.
shouldAutoStopOnDegraded(verdict, reasons) == verdict # "PASS"

shouldAutoStop(verdict, reasons) ==
    IF verdict # "FAIL" THEN FALSE ELSE HasCriticalReason(reasons)

-----------------------------------------------------------------------------
(* load-patterns: getConcurrencyAtWithDuration and getDelayMs *)

(* Double arithmetic of the ramp: Math.floor(defaultConcurrency * ratio) with   *)
(* ratio = (timeSinceStartMs / 1000) / rampSec, three roundings.                *)

\* The e with timeSinceStartMs / (1000 * 2^e) in [1/2, 1) (or below 1 for e = 0);
\* dividing by a power of two is exact.
RampScale(timeSinceStartMs) ==
    CHOOSE e \in 0..5 : /\ timeSinceStartMs < 1000 * 2^e
                        /\ e = 0 \/ timeSinceStartMs >= 1000 * 2^(e - 1)

\* The number written by bits[from..to], modulo m.
RECURSIVE BitsMod(_, _, _, _)
BitsMod(bits, from, to, m) ==
    IF from > to THEN 0
    ELSE IF from = to THEN bits[from] % m
    ELSE LET half == (from + to) \div 2
         IN  (BitsMod(bits, from, half, m) * Pow2Mod(to - half, m)
                + BitsMod(bits, half + 1, to, m)) % m

\* bits divided by d: the quotient, on as many bits.
DivBits(bits, d) ==
    [i \in 1..Len(bits) |-> (2 * BitsMod(bits, 1, i - 1, d) + bits[i]) \div d]

\* ratio = fl(fl(timeSinceStartMs / 1000) / rampSec), for 0 < timeSinceStartMs
\* < rampSec * 1000 and rampSec <= 32: a 54-bit mantissa bits and a shift with
\* ratio = bits * 2^-shift.  The mantissa of timeSec is divided by rampSec on 60
\* further bits and rounded to nearest, ties to even, at 53 bits.
RampRatio(timeSinceStartMs, rampSec) ==
    LET e      == RampScale(timeSinceStartMs)
        n1     == NormShift(timeSinceStartMs, 1000 * 2^e)
        ext    == DivideDoubles(timeSinceStartMs, 1000 * 2^e) \o [i \in 1..60 |-> 0]
        q      == DivBits(ext, rampSec)
        rem    == BitsMod(ext, 1, Len(ext), rampSec)
        p      == CHOOSE i \in 1..Len(q) : q[i] = 1 /\ \A j \in 1..(i - 1) : q[j] = 0
        q53    == SubSeq(q, p, p + 52)
        sticky == rem > 0 \/ \E j \in (p + 54)..Len(q) : q[j] = 1
        up     == q[p + 53] = 1 /\ (sticky \/ q53[53] = 1)
    IN  [bits  |-> IF up THEN IncrementBits(q53) ELSE <<0>> \o q53,
         shift |-> n1 + 50 + p - e]

\* fl(defaultConcurrency * ratio) < k in doubles, for an integer k in
\* 1..defaultConcurrency: the product rounds below k exactly when it is under
\* the midpoint between k and the double before it (a tie goes to k, whose
\* mantissa is even).  Both sides are scaled by 2^(shift + 10).
RampProductBelow(defaultConcurrency, timeSinceStartMs, rampSec, k) ==
    LET r   == RampRatio(timeSinceStartMs, rampSec)
        mid == MidpointBits(k, r.shift + 10)
        m   == [i \in 1..(r.shift - 47) |-> 0] \o r.bits \o [i \in 1..10 |-> 0]
        dq  == DivBits(mid, defaultConcurrency)
    IN  \/ LessBits(m, dq)
        \/ m = dq /\ BitsMod(mid, 1, Len(mid), defaultConcurrency) > 0

\* Math.floor(defaultConcurrency * ratio) for timeSinceStartMs < rampSec * 1000.
\* The double differs from the exact product by less than 2^-45, and an exact
\* product that is not an integer is at least 1 / (1000 * rampSec) away from
\* one: only an exact product that is an integer needs the double arithmetic.
RampFloor(defaultConcurrency, timeSinceStartMs, rampSec) ==
    LET num == defaultConcurrency * timeSinceStartMs
        den == rampSec * 1000
    IN  IF num % den # 0 \/ num = 0 THEN num \div den
        ELSE IF RampProductBelow(defaultConcurrency, timeSinceStartMs, rampSec,
                                 num \div den)
        THEN num \div den - 1
        ELSE num \div den

\* A plausible slip: the end of the spike window is included.
getConcurrencyInclusiveSpikeEnd(pattern, timeSinceStartMs, durationSeconds, defaultConcurrency) ==
    IF ~IsSome(pattern) THEN defaultConcurrency
    ELSE
    LET p == Get(pattern) IN
    IF p.type \in {"fixed_concurrency", "fixed_rps"} THEN defaultConcurrency
    ELSE IF p.type = "ramp_up" THEN
        LET rampSec == IF IsSome(p.rampUpSeconds) THEN Get(p.rampUpSeconds) ELSE 10 IN
        IF timeSinceStartMs >= rampSec * 1000 THEN defaultConcurrency
        ELSE Max(1, RampFloor(defaultConcurrency, timeSinceStartMs, rampSec))
    ELSE IF p.type = "spike" THEN
        LET spikeDur   == IF IsSome(p.spikeDurationSeconds)
                          THEN Get(p.spikeDurationSeconds) ELSE 5
            spikeStart == Max(0, durationSeconds - spikeDur)
            spikeConc  == IF IsSome(p.spikeConcurrency)
                          THEN Get(p.spikeConcurrency) ELSE defaultConcurrency * 2
        IN  IF /\ timeSinceStartMs >= spikeStart * 1000
               /\ timeSinceStartMs <= (spikeStart + spikeDur) * 1000
            THEN spikeConc
            ELSE defaultConcurrency
    ELSE defaultConcurrency

\* pattern is {} (absent) or {[type, targetRps, rampUpSeconds, spikeConcurrency,
\* spikeDurationSeconds]}, the last four optional.  timeSec = timeSinceStartMs/1000
\* is compared with integers after multiplying through by 1000 (the rounded
\* quotient is on the same side of an integer as the exact one).
getConcurrencyAtWithDuration(pattern, timeSinceStartMs, durationSeconds, defaultConcurrency) ==
    IF ~IsSome(pattern) THEN defaultConcurrency
    ELSE
    LET p == Get(pattern) IN
    IF p.type \in {"fixed_concurrency", "fixed_rps"} THEN defaultConcurrency
    ELSE IF p.type = "ramp_up" THEN
        LET rampSec == IF IsSome(p.rampUpSeconds) THEN Get(p.rampUpSeconds) ELSE 10 IN
        IF timeSinceStartMs >= rampSec * 1000 THEN defaultConcurrency
        ELSE Max(1, RampFloor(defaultConcurrency, timeSinceStartMs, rampSec))
    ELSE IF p.type = "spike" THEN
        LET spikeDur   == IF IsSome(p.spikeDurationSeconds)
                          THEN Get(p.spikeDurationSeconds) ELSE 5
            spikeStart == Max(0, durationSeconds - spikeDur)
            spikeConc  == IF IsSome(p.spikeConcurrency)
                          THEN Get(p.spikeConcurrency) ELSE defaultConcurrency * 2
        IN  IF /\ timeSinceStartMs >= spikeStart * 1000
               /\ timeSinceStartMs < (spikeStart + spikeDur) * 1000
            THEN spikeConc
            ELSE defaultConcurrency
    ELSE defaultConcurrency

\* (1000 / targetRps) * concurrency; the model's targetRps values divide 1000.
getDelayMs(pattern, concurrency) ==
    IF ~IsSome(pattern) THEN 0
    ELSE LET p == Get(pattern) IN
         IF p.type # "fixed_rps" \/ ~IsSome(p.targetRps) THEN 0
         ELSE IF Get(p.targetRps) <= 0 THEN 0
         ELSE (1000 \div Get(p.targetRps)) * concurrency

-----------------------------------------------------------------------------
(* safety: the global rate limiter *)

\* The while loop of checkRateLimit: shift timestamps older than the cutoff.
RECURSIVE Evict(_, _)
Evict(ts, cutoff) ==
    IF Len(ts) > 0 /\ Head(ts) < cutoff THEN Evict(Tail(ts), cutoff) ELSE ts

\* A plausible slip: <= for <, which admits one request too many.
checkRateLimitOffByOne(ts, dateNow) ==
    LET kept == Evict(ts, dateNow - WINDOW_MS)
    IN  [window |-> kept, allowed |-> Len(kept) <= GLOBAL_RATE_LIMIT_RPS]

\* checkRateLimit(): the window after eviction, and whether one more is allowed.
checkRateLimit(ts, dateNow) ==
    LET kept == Evict(ts, dateNow - WINDOW_MS)
    IN  [window |-> kept, allowed |-> Len(kept) < GLOBAL_RATE_LIMIT_RPS]

\* recordRequestSent()
recordRequestSent(ts, dateNow) == Append(ts, dateNow)

-----------------------------------------------------------------------------
(* history: addToHistory *)

\* A plausible slip: shift() for pop(), which drops the record just inserted.
addToHistoryDropNewest(h, record) ==
    LET u == <<record>> \o h
    IN  IF Len(u) > MAX_HISTORY THEN SubSeq(u, 2, Len(u)) ELSE u

\* history.unshift(record); if (history.length > MAX_HISTORY) history.pop()
addToHistory(h, record) ==
    LET u == <<record>> \o h
    IN  IF Len(u) > MAX_HISTORY THEN SubSeq(u, 1, Len(u) - 1) ELSE u

\* [...history]: a new array that holds the same record objects.  Arrays are
\* values here; that two arrays hold the same object is kept in the records'
\* ref (see WriteThrough).
getHistory(h) == [i \in 1..Len(h) |-> h[i]]

\* A plausible slip: only the newest record is looked at.
getHistoryRecordNewestOnly(h, id) ==
    IF Len(h) > 0 /\ h[1].id = id THEN Some(h[1]) ELSE None

\* history.find((r) => r.id === id): the first match, or undefined.
getHistoryRecord(h, id) ==
    IF \E i \in 1..Len(h) : h[i].id = id
    THEN Some(h[CHOOSE i \in 1..Len(h) :
                   h[i].id = id /\ \A j \in 1..(i - 1) : h[j].id # id])
    ELSE None

\* A plausible slip: look the ids up one by one, in the order given
\* (ids.map(find).filter(Boolean)).
getHistoryRecordsInInputOrder(h, ids) ==
    CHOOSE out \in
      { [n \in 1..Cardinality(found) |->
            Get(getHistoryRecord(h,
                  ids[CHOOSE k \in found : Cardinality({j \in found : j < k}) = n - 1]))] :
        found \in {{k \in 1..Len(ids) : IsSome(getHistoryRecord(h, ids[k]))}} } : TRUE

\* history.filter((r) => set.has(r.id)) with set = new Set(ids).
getHistoryRecords(h, ids) ==
    CHOOSE out \in
      { [k \in 1..Cardinality(idx) |->
            h[CHOOSE i \in idx : Cardinality({j \in idx : j < i}) = k - 1]] :
        idx \in {{i \in 1..Len(h) : h[i].id \in {ids[k] : k \in 1..Len(ids)}}} } : TRUE

-----------------------------------------------------------------------------
(* metrics: buildTimeSeries *)

\* The results whose bucket index floor((timestamp - startTime)/1000) is key.
RECURSIVE InBucket(_, _, _)
InBucket(results, startTime, key) ==
    IF results = <<>> THEN <<>>
    ELSE IF (Head(results).timestamp - startTime) \div 1000 = key
         THEN <<Head(results)>> \o InBucket(Tail(results), startTime, key)
         ELSE InBucket(Tail(results), startTime, key)

AllTimes(results) == [i \in 1..Len(results) |-> results[i].responseTimeMs]

\* One emitted point; responseTime and errorRate in hundredths.
BucketPoint(results, startTime, key) ==
    CHOOSE out \in
      { [ time         |-> startTime + key * 1000,
          responseTime |-> IF Len(b) > 0 THEN RoundDiv(SumSeq(AllTimes(b)) * 100, Len(b)) ELSE 0,
          errorRate    |-> IF Len(b) > 0
                           THEN RoundDiv((Len(b) - success) * 10000, Len(b)) ELSE 0,
          successCount |-> success,
          failCount    |-> Len(b) - success ] :
        b \in {InBucket(results, startTime, key)},
        success \in {Cardinality({i \in 1..Len(results) :
                        /\ results[i].success
                        /\ (results[i].timestamp - startTime) \div 1000 = key})} } : TRUE

\* [...bucketMap.keys()].sort((a, b) => a - b)
SortedKeys(S) ==
    [i \in 1..Cardinality(S) |->
        CHOOSE x \in S : Cardinality({y \in S : y < x}) = i - 1]

\* A plausible slip: a point for every second up to the last bucket, empty
\* seconds included.
buildTimeSeriesDense(results, startTime) ==
    CHOOSE out \in
      { [i \in 1..Len(keys) |-> BucketPoint(results, startTime, keys[i])] :
        keys \in {SortedKeys(UNION {0..((results[i].timestamp - startTime) \div 1000) :
                                      i \in 1..Len(results)})} } : TRUE

buildTimeSeries(results, startTime) ==
    CHOOSE out \in
      { [i \in 1..Len(keys) |-> BucketPoint(results, startTime, keys[i])] :
        keys \in {SortedKeys({(results[i].timestamp - startTime) \div 1000 :
                                 i \in 1..Len(results)})} } : TRUE

-----------------------------------------------------------------------------
(* safety-score: computeSafetyScore *)

\* A plausible slip: the rounded score is returned without the clamp.
computeSafetyScoreNotClamped(metrics) ==
    LET total   == metrics.totalRequests
        t       == IF total > 0 THEN total ELSE 1
        den     == 10000 * t
        httpErrorCount == metrics.failedRequests - metrics.timeoutCount
        \* min(httpErrorRate * 0.6, 40), httpErrorRate = httpErrorCount/total*100
        httpPen == IF total > 0 THEN Min(60 * httpErrorCount * 10000, 40 * den) ELSE 0
        \* min(timeoutRatePercentage * 1.2, 30)
        toPen   == Min(120 * metrics.timeoutRatePercentage * t, 30 * den)
        \* min((p95 - 500)/100 * 3, 25) when p95 > 500
        p95Pen  == IF metrics.p95ResponseTime > 500 * 100
                   THEN Min((metrics.p95ResponseTime - 50000) * 3 * t, 25 * den) ELSE 0
        \* min((avg - 300)/100 * 1, 10) when avg > 300
        avgPen  == IF metrics.avgResponseTime > 300 * 100
                   THEN Min((metrics.avgResponseTime - 30000) * t, 10 * den) ELSE 0
        rpsPen  == IF metrics.requestsPerSecond > 0 /\ metrics.requestsPerSecond < 100
                   THEN 5 * den ELSE 0
        num     == 100 * den - httpPen - toPen - p95Pen - avgPen - rpsPen
        rounded == (2 * num + den) \div (2 * den)
        finalScore == rounded
    IN  [ score |-> finalScore,
          label |-> IF finalScore < 50 THEN "DANGEROUS"
                    ELSE IF finalScore < 80 THEN "WARNING" ELSE "SAFE" ]

\* The score before rounding is the rational num/den with den = 10000 * total
\* (den = 10000 when total = 0); every penalty is brought to that denominator.
computeSafetyScore(metrics) ==
    LET total   == metrics.totalRequests
        t       == IF total > 0 THEN total ELSE 1
        den     == 10000 * t
        httpErrorCount == metrics.failedRequests - metrics.timeoutCount
        \* min(httpErrorRate * 0.6, 40), httpErrorRate = httpErrorCount/total*100
        httpPen == IF total > 0 THEN Min(60 * httpErrorCount * 10000, 40 * den) ELSE 0
        \* min(timeoutRatePercentage * 1.2, 30)
        toPen   == Min(120 * metrics.timeoutRatePercentage * t, 30 * den)
        \* min((p95 - 500)/100 * 3, 25) when p95 > 500
        p95Pen  == IF metrics.p95ResponseTime > 500 * 100
                   THEN Min((metrics.p95ResponseTime - 50000) * 3 * t, 25 * den) ELSE 0
        \* min((avg - 300)/100 * 1, 10) when avg > 300
        avgPen  == IF metrics.avgResponseTime > 300 * 100
                   THEN Min((metrics.avgResponseTime - 30000) * t, 10 * den) ELSE 0
        rpsPen  == IF metrics.requestsPerSecond > 0 /\ metrics.requestsPerSecond < 100
                   THEN 5 * den ELSE 0
        num     == 100 * den - httpPen - toPen - p95Pen - avgPen - rpsPen
        rounded == (2 * num + den) \div (2 * den)
        finalScore == Max(0, Min(100, rounded))
    IN  [ score |-> finalScore,
          label |-> IF finalScore < 50 THEN "DANGEROUS"
                    ELSE IF finalScore < 80 THEN "WARNING" ELSE "SAFE" ]

-----------------------------------------------------------------------------
(* engine: runOneRequest *)

\* Where a worker's async function is suspended.  pc is one of
\*   "unspawned"  a spike worker before the spike timer fires
\*   "mask"       awaiting the 100 ms mask sleep, due at wake
\*   "delay"      awaiting the inter-request delay, due at wake
\*   "rate"       awaiting the 20 ms rate-limit backoff, due at wake
\*   "fetch"      awaiting fetch; start is the request's start, the abort timer
\*                is due at wake = start + requestTimeoutMs
\*   "done"       the promise has resolved
\*   "rejected"   the promise has rejected (an exception escaped the function)
Suspended(pc, wake, start) == [pc |-> pc, wake |-> wake, start |-> start]

\* A plausible slip: a rate-limited call gives up instead of retrying.
runOneRequestEnterDropping(cfg, ts, dateNow) ==
    LET c == checkRateLimit(ts, dateNow)
    IN  IF ~c.allowed
        THEN [w |-> Suspended("done", 0, 0), ts |-> c.window]
        ELSE [w  |-> Suspended("fetch", dateNow + cfg.requestTimeoutMs, dateNow),
              ts |-> recordRequestSent(c.window, dateNow)]

\* runOneRequest from a rate-limit check to its next await: either the backoff
\* sleep, or recordRequestSent, start = Date.now() and the fetch.
runOneRequestEnter(cfg, ts, dateNow) ==
    LET c == checkRateLimit(ts, dateNow)
    IN  IF ~c.allowed
        THEN [w |-> Suspended("rate", dateNow + RATE_BACKOFF_MS, 0), ts |-> c.window]
        ELSE [w  |-> Suspended("fetch", dateNow + cfg.requestTimeoutMs, dateNow),
              ts |-> recordRequestSent(c.window, dateNow)]

\* A plausible slip: the start is not subtracted from the time of the answer.
RequestResultAbsoluteTime(outcome, start, dateNow) ==
    LET elapsed == dateNow
    IN  IF outcome \in {"ok", "http"}
        THEN [ responseTimeMs |-> elapsed,
               success        |-> outcome = "ok",
               statusCode     |-> Some(IF outcome = "ok" THEN 200 ELSE 500),
               error          |-> None,
               timestamp      |-> start ]
        ELSE [ responseTimeMs |-> elapsed,
               success        |-> FALSE,
               statusCode     |-> None,
               error          |-> Some(IF outcome = "timeout" THEN "timeout" ELSE "fetch failed"),
               timestamp      |-> start ]

\* The RequestResult runOneRequest returns when the fetch settles at dateNow.
\* outcome: "ok" (status < 400), "http" (status >= 400), "timeout" (the abort
\* fired), "neterr" (another transport error).
RequestResult(outcome, start, dateNow) ==
    LET elapsed == dateNow - start
    IN  IF outcome \in {"ok", "http"}
        THEN [ responseTimeMs |-> elapsed,
               success        |-> outcome = "ok",
               statusCode     |-> Some(IF outcome = "ok" THEN 200 ELSE 500),
               error          |-> None,
               timestamp      |-> start ]
        ELSE [ responseTimeMs |-> elapsed,
               success        |-> FALSE,
               statusCode     |-> None,
               error          |-> Some(IF outcome = "timeout" THEN "timeout" ELSE "fetch failed"),
               timestamp      |-> start ]

Outcomes == {"ok", "http", "timeout", "neterr"}

-----------------------------------------------------------------------------
(* engine: worker *)

EndTime(cfg, startedAt) == startedAt + cfg.durationSeconds * 1000

\* A plausible slip: the mask compares with > (one requester too many runs).
workerIterationOffByOne(cfg, startedAt, workerIndex, ts, dateNow) ==
    LET currentConcurrency ==
            getConcurrencyAtWithDuration(cfg.loadPattern, dateNow - startedAt,
                                         cfg.durationSeconds, cfg.concurrentUsers)
        delayMs == getDelayMs(cfg.loadPattern, cfg.concurrentUsers)
    IN  IF workerIndex > currentConcurrency
        THEN [w |-> Suspended("mask", dateNow + MASK_SLEEP_MS, 0), ts |-> ts]
        ELSE IF delayMs > 0
        THEN [w |-> Suspended("delay", dateNow + delayMs, 0), ts |-> ts]
        ELSE runOneRequestEnter(cfg, ts, dateNow)

\* The body of the loop of worker() up to its next suspension: the mask check,
\* the inter-request delay, the entry into runOneRequest.
workerIteration(cfg, startedAt, workerIndex, ts, dateNow) ==
    LET currentConcurrency ==
            getConcurrencyAtWithDuration(cfg.loadPattern, dateNow - startedAt,
                                         cfg.durationSeconds, cfg.concurrentUsers)
        delayMs == getDelayMs(cfg.loadPattern, cfg.concurrentUsers)
    IN  IF workerIndex >= currentConcurrency
        THEN [w |-> Suspended("mask", dateNow + MASK_SLEEP_MS, 0), ts |-> ts]
        ELSE IF delayMs > 0
        THEN [w |-> Suspended("delay", dateNow + delayMs, 0), ts |-> ts]
        ELSE runOneRequestEnter(cfg, ts, dateNow)

\* A plausible slip: a loop condition that looks at the end time only.
workerLoopIgnoringStop(cfg, startedAt, stop, workerIndex, ts, dateNow) ==
    IF ~(dateNow < EndTime(cfg, startedAt))
    THEN [w |-> Suspended("done", 0, 0), ts |-> ts]
    ELSE workerIteration(cfg, startedAt, workerIndex, ts, dateNow)

\* One pass from the loop head of worker(), while (!stopRef.stop && Date.now()
\* < endTime), to its next suspension.
workerLoop(cfg, startedAt, stop, workerIndex, ts, dateNow) ==
    IF stop \/ ~(dateNow < EndTime(cfg, startedAt))
    THEN [w |-> Suspended("done", 0, 0), ts |-> ts]
    ELSE workerIteration(cfg, startedAt, workerIndex, ts, dateNow)

\* A plausible slip: unshift for push, the newest result first.
AggregateNewestFirst(state, result, dateNow) ==
    CHOOSE out \in UNION UNION
      { { { [ state |->
               [state EXCEPT
                  !.requestResults   = results,
                  !.metrics          = metrics,
                  !.timeSeries       = buildTimeSeries(results, state.startedAt),
                  !.verdict          = LegacyVerdict(metrics),
                  !.thresholdVerdict = Some(ev.verdict),
                  !.verdictReasons   = Some(ev.reasons),
                  !.firstViolationAt =
                       IF /\ IsSome(ev.firstViolationAt)
                          /\ Get(ev.firstViolationAt) # 0
                          /\ ~IsSome(@)
                       THEN ev.firstViolationAt ELSE @ ],
              stop |-> shouldAutoStop(ev.verdict, ev.reasons) ] :
            ev \in {evaluateThresholds(metrics, state.config.thresholds, dateNow)} } :
          metrics \in {computeMetrics(results, dateNow - state.startedAt)} } :
        results \in {<<result>> \o state.requestResults} } : TRUE

\* A plausible slip: every violating evaluation stores its time.
AggregateLastViolation(state, result, dateNow) ==
    CHOOSE out \in UNION UNION
      { { { [ state |->
               [state EXCEPT
                  !.requestResults   = results,
                  !.metrics          = metrics,
                  !.timeSeries       = buildTimeSeries(results, state.startedAt),
                  !.verdict          = LegacyVerdict(metrics),
                  !.thresholdVerdict = Some(ev.verdict),
                  !.verdictReasons   = Some(ev.reasons),
                  !.firstViolationAt =
                       IF /\ IsSome(ev.firstViolationAt)
                          /\ Get(ev.firstViolationAt) # 0
                       THEN ev.firstViolationAt ELSE @ ],
              stop |-> shouldAutoStop(ev.verdict, ev.reasons) ] :
            ev \in {evaluateThresholds(metrics, state.config.thresholds, dateNow)} } :
          metrics \in {computeMetrics(results, dateNow - state.startedAt)} } :
        results \in {Append(state.requestResults, result)} } : TRUE

\* The updater worker() passes to updateTest: append the result, recompute
\* metrics, time series and verdicts, set the stop flag on a critical failure.
\* (CHOOSE out \in { e : x \in {v} } : TRUE is e with x bound to the value v;
\* a binding that uses an earlier one is nested, and UNION removes the nesting.)
Aggregate(state, result, dateNow) ==
    CHOOSE out \in UNION UNION
      { { { [ state |->
               [state EXCEPT
                  !.requestResults   = results,
                  !.metrics          = metrics,
                  !.timeSeries       = buildTimeSeries(results, state.startedAt),
                  !.verdict          = LegacyVerdict(metrics),
                  !.thresholdVerdict = Some(ev.verdict),
                  !.verdictReasons   = Some(ev.reasons),
                  !.firstViolationAt =
                       IF /\ IsSome(ev.firstViolationAt)
                          /\ Get(ev.firstViolationAt) # 0
                          /\ ~IsSome(@)
                       THEN ev.firstViolationAt ELSE @ ],
              stop |-> shouldAutoStop(ev.verdict, ev.reasons) ] :
            ev \in {evaluateThresholds(metrics, state.config.thresholds, dateNow)} } :
          metrics \in {computeMetrics(results, dateNow - state.startedAt)} } :
        results \in {Append(state.requestResults, result)} } : TRUE

-----------------------------------------------------------------------------
(* engine: startLoadTest *)

IsSpike(cfg) ==
    /\ IsSome(cfg.loadPattern)
    /\ Get(cfg.loadPattern).type = "spike"
    /\ IsSome(Get(cfg.loadPattern).spikeConcurrency)
    /\ IsSome(Get(cfg.loadPattern).spikeDurationSeconds)

\* A plausible slip: the offset computed for every pattern, with a spike
\* duration of 0 when none is given.
SpikeStartMsForAnyPattern(cfg) ==
    IF IsSpike(cfg)
    THEN Max(0, (cfg.durationSeconds - Get(Get(cfg.loadPattern).spikeDurationSeconds)) * 1000)
    ELSE Max(0, cfg.durationSeconds * 1000)

\* A plausible slip: the spike cohort is started with the base requesters.
SpikeStartMsImmediate(cfg) == 0

\* spikeStartMs: 0 unless the pattern is a spike with both parameters given.
SpikeStartMs(cfg) ==
    IF IsSpike(cfg)
    THEN Max(0, (cfg.durationSeconds - Get(Get(cfg.loadPattern).spikeDurationSeconds)) * 1000)
    ELSE 0

\* extra: the size of the spike cohort.
SpikeExtra(cfg) ==
    IF IsSpike(cfg)
    THEN Max(0, Get(Get(cfg.loadPattern).spikeConcurrency) - cfg.concurrentUsers)
    ELSE 0

BaseIndices(cfg) == 0..(cfg.concurrentUsers - 1)
SpikeIndices(cfg) == cfg.concurrentUsers..(cfg.concurrentUsers + SpikeExtra(cfg) - 1)

\* Array.from({length}, (_, i) => worker(...)): the workers first..last are
\* called in index order, each running to its first suspension.
RECURSIVE SpawnWorkers(_, _, _, _, _, _, _, _)
SpawnWorkers(cfg, startedAt, stop, first, last, ws, ts, dateNow) ==
    IF first > last THEN [ws |-> ws, ts |-> ts]
    ELSE LET r == workerLoop(cfg, startedAt, stop, first, ts, dateNow)
         IN  SpawnWorkers(cfg, startedAt, stop, first + 1, last,
                          [ws EXCEPT ![first] = r.w], r.ts, dateNow)

\* A plausible slip: the initial state already carries a safety score.
InitialStateScored(cfg, dateNow) ==
    [ id               |-> "test",
      config           |-> cfg,
      status           |-> "running",
      startedAt        |-> dateNow,
      completedAt      |-> None,
      metrics          |-> ZeroMetrics,
      safetyScore      |-> Some(computeSafetyScore(ZeroMetrics)),
      verdict          |-> "OK",
      thresholdVerdict |-> None,
      verdictReasons   |-> None,
      firstViolationAt |-> None,
      requestResults   |-> <<>>,
      timeSeries       |-> <<>> ]

\* The state startLoadTest registers with setTest.
InitialState(cfg, dateNow) ==
    [ id               |-> "test",
      config           |-> cfg,
      status           |-> "running",
      startedAt        |-> dateNow,
      completedAt      |-> None,
      metrics          |-> ZeroMetrics,
      safetyScore      |-> None,
      verdict          |-> "OK",
      thresholdVerdict |-> None,
      verdictReasons   |-> None,
      firstViolationAt |-> None,
      requestResults   |-> <<>>,
      timeSeries       |-> <<>> ]

\* A plausible slip: the completion time is not stamped.
FinalizeWithoutStamp(s, dateNow) ==
    IF s.status # "running" THEN s
    ELSE CHOOSE out \in UNION
      { { [s EXCEPT
             !.status           = "completed",
             !.metrics          = metrics,
             !.timeSeries       = buildTimeSeries(s.requestResults, s.startedAt),
             !.safetyScore      = Some(computeSafetyScore(metrics)),
             !.verdict          = LegacyVerdict(metrics),
             !.thresholdVerdict = Some(ev.verdict),
             !.verdictReasons   = Some(ev.reasons) ] :
          ev \in {evaluateThresholds(metrics, s.config.thresholds, dateNow)} } :
        metrics \in {computeMetrics(s.requestResults, dateNow - s.startedAt)} } : TRUE

\* A plausible slip: the final callback does not compute the safety score.
FinalizeWithoutScore(s, dateNow) ==
    IF s.status # "running" THEN s
    ELSE CHOOSE out \in UNION
      { { [s EXCEPT
             !.status           = "completed",
             !.completedAt      = Some(dateNow),
             !.metrics          = metrics,
             !.timeSeries       = buildTimeSeries(s.requestResults, s.startedAt),
             !.verdict          = LegacyVerdict(metrics),
             !.thresholdVerdict = Some(ev.verdict),
             !.verdictReasons   = Some(ev.reasons) ] :
          ev \in {evaluateThresholds(metrics, s.config.thresholds, dateNow)} } :
        metrics \in {computeMetrics(s.requestResults, dateNow - s.startedAt)} } : TRUE

\* The last .then of startLoadTest's chain, up to addToHistory.
Finalize(s, dateNow) ==
    IF s.status # "running" THEN s
    ELSE CHOOSE out \in UNION
      { { [s EXCEPT
             !.status           = "completed",
             !.completedAt      = Some(dateNow),
             !.metrics          = metrics,
             !.timeSeries       = buildTimeSeries(s.requestResults, s.startedAt),
             !.safetyScore      = Some(computeSafetyScore(metrics)),
             !.verdict          = LegacyVerdict(metrics),
             !.thresholdVerdict = Some(ev.verdict),
             !.verdictReasons   = Some(ev.reasons) ] :
          ev \in {evaluateThresholds(metrics, s.config.thresholds, dateNow)} } :
        metrics \in {computeMetrics(s.requestResults, dateNow - s.startedAt)} } : TRUE

\* The TestHistoryRecord the chain passes to addToHistory.
HistoryRecord(s) ==
    [ id |-> s.id, config |-> s.config, metrics |-> s.metrics,
      safetyScore |-> s.safetyScore, verdict |-> s.verdict,
      thresholdVerdict |-> s.thresholdVerdict, verdictReasons |-> s.verdictReasons,
      firstViolationAt |-> s.firstViolationAt, startedAt |-> s.startedAt,
      completedAt |-> s.completedAt, timeSeries |-> s.timeSeries ]

\* A plausible slip: the guard of the final callback never holds.
FinalizeStepNever(s, h, dateNow) == [state |-> s, history |-> h]

\* A plausible slip: the record is taken from the state before the final
\* fields are assigned.
FinalizeStepStaleRecord(s, h, dateNow) ==
    IF s.status # "running" THEN [state |-> s, history |-> h]
    ELSE CHOOSE out \in
           { [state |-> f, history |-> addToHistory(h, HistoryRecord(s))] :
             f \in {Finalize(s, dateNow)} } : TRUE

\* The final callback on the store and the history.
FinalizeStep(s, h, dateNow) ==
    IF s.status # "running" THEN [state |-> s, history |-> h]
    ELSE CHOOSE out \in
           { [state |-> f, history |-> addToHistory(h, HistoryRecord(f))] :
             f \in {Finalize(s, dateNow)} } : TRUE

AllSettled(ws, indices) == \A i \in indices : ws[i].pc = "done"
AnyRejected(ws, indices) == \E i \in indices : ws[i].pc = "rejected"

\* The promise chain of startLoadTest.  sched.phase is one of
\*   "idle"      startLoadTest has not been called
\*   "base"      awaiting Promise.all(basePromises)
\*   "wait"      awaiting the post-base timer, due at sched.wake
\*   "spike"     awaiting Promise.all(spikePromisesRef.current)
\*   "final"     the last callback has run
\*   "rejected"  a promise of the chain rejected: no later callback runs
\* Reactions are microtasks: they run in the step that settles the promise.
\* ChainReact is the chain's reaction to the workers' state after a step.
ChainReact(cfg, ws, s, h, sc, dateNow) ==
    IF sc.phase = "base" /\ AnyRejected(ws, BaseIndices(cfg))
    THEN [sched |-> [phase |-> "rejected", wake |-> 0], state |-> s, history |-> h]
    ELSE IF sc.phase = "base" /\ AllSettled(ws, BaseIndices(cfg))
    THEN LET elapsed == dateNow - s.startedAt
             wait    == Max(0, SpikeStartMs(cfg) - elapsed)
         IN  [sched |-> [phase |-> "wait", wake |-> dateNow + wait],
              state |-> s, history |-> h]
    ELSE IF sc.phase = "spike" /\ AnyRejected(ws, SpikeIndices(cfg))
    THEN [sched |-> [phase |-> "rejected", wake |-> 0], state |-> s, history |-> h]
    ELSE IF sc.phase = "spike" /\ AllSettled(ws, SpikeIndices(cfg))
    THEN CHOOSE out \in
           { [sched |-> [phase |-> "final", wake |-> 0],
              state |-> f.state, history |-> f.history] :
             f \in {FinalizeStep(s, h, dateNow)} } : TRUE
    ELSE [sched |-> sc, state |-> s, history |-> h]

\* A plausible slip: the chain does not wait for the spike cohort.
waitSpikeSkipped(cfg, ws, timerFired) == "final"

\* waitSpike, called when the post-base timer has fired: wait for the spike
\* promises if the spike timer has stored any, else go on to the final callback.
waitSpike(cfg, ws, timerFired) ==
    IF timerFired /\ SpikeExtra(cfg) > 0 THEN "spike" ELSE "final"

-----------------------------------------------------------------------------
(* The configurations startLoadTest is called with *)

Thresholds(maxErr, maxP95, minSucc) ==
    [maxErrorRatePercent |-> maxErr, maxP95LatencyMs |-> maxP95,
     minSuccessRatePercent |-> minSucc]

Pattern(type, rps, ramp, spikeConc, spikeDur) ==
    [type |-> type, targetRps |-> rps, rampUpSeconds |-> ramp,
     spikeConcurrency |-> spikeConc, spikeDurationSeconds |-> spikeDur]

LoadTestConfig(n, d, timeoutMs, thresholds, pattern) ==
    [targetUrl |-> "https://target", method |-> "GET", concurrentUsers |-> n,
     durationSeconds |-> d, requestTimeoutMs |-> timeoutMs,
     thresholds |-> thresholds, loadPattern |-> pattern]

\* Two requesters, no pattern, auto-stop above 50 % errors.
CfgFixed ==
    LoadTestConfig(2, 1, 1000, Some(Thresholds(Some(50), None, None)), None)

\* One requester plus a spike cohort of one in the last second; a latency limit
\* and a success-rate limit.
CfgSpike ==
    LoadTestConfig(1, 2, 1000, Some(Thresholds(None, Some(200), Some(50))),
                   Some(Pattern("spike", None, None, Some(2), Some(1))))

\* One requester paced at 2 requests per second, no thresholds.
CfgRps ==
    LoadTestConfig(1, 1, 1000, None,
                   Some(Pattern("fixed_rps", Some(2), None, None, None)))

\* Two requesters ramping up over the whole test; a latency limit only.
CfgRamp ==
    LoadTestConfig(2, 1, 1000, Some(Thresholds(None, Some(200), None)),
                   Some(Pattern("ramp_up", None, Some(1), None, None)))

Configs == {CfgFixed, CfgSpike, CfgRps, CfgRamp}

-----------------------------------------------------------------------------
(* State machine *)

Init ==
    /\ now = 2 * MsPerTick
    /\ config = None
    /\ test = None
    /\ stopRef = FALSE
    /\ workers = <<>>
    /\ recentRequestTimestamps = <<>>
    /\ spikeTimer = [state |-> "none", wake |-> 0]
    /\ sched = [phase |-> "idle", wake |-> 0]
    /\ history = <<>>
    /\ client = [calls |-> 0, returned |-> None, mutations |-> 0]
    /\ probe = [op |-> "none"]

Sleeping(w) == w.pc \in {"mask", "delay", "rate", "fetch"}

\* The effects of one run of a worker on the shared state, followed by the
\* promise chain's reaction.  (\E x \in {e} binds x to the value of e.)
Commit(ws2, ts2, s2, stop2) ==
    \E r \in {ChainReact(Get(config), ws2, s2, history, sched, now)} :
        /\ workers' = ws2
        /\ recentRequestTimestamps' = ts2
        /\ stopRef' = stop2
        /\ test' = Some(r.state)
        /\ history' = r.history
        /\ sched' = r.sched
        /\ UNCHANGED <<now, config, spikeTimer, client, probe>>

\* startLoadTest(cfg): register the state, spawn the base workers, arm the
\* spike timer, build the promise chain.
startLoadTest(cfg) ==
    /\ sched.phase = "idle"
    /\ \E s0 \in {InitialState(cfg, now)} :
       \E ws0 \in {[i \in BaseIndices(cfg) \cup SpikeIndices(cfg)
                      |-> Suspended("unspawned", 0, 0)]} :
       \E sp \in {SpawnWorkers(cfg, now, FALSE, 0, cfg.concurrentUsers - 1,
                               ws0, recentRequestTimestamps, now)} :
       \E r \in {ChainReact(cfg, sp.ws, s0, history, [phase |-> "base", wake |-> 0], now)} :
           /\ config' = Some(cfg)
           /\ stopRef' = FALSE
           /\ workers' = sp.ws
           /\ recentRequestTimestamps' = sp.ts
           /\ spikeTimer' = IF IsSpike(cfg) /\ SpikeExtra(cfg) > 0
                            THEN [state |-> "pending", wake |-> now + SpikeStartMs(cfg)]
                            ELSE [state |-> "none", wake |-> 0]
           /\ test' = Some(r.state)
           /\ history' = r.history
           /\ sched' = r.sched
           /\ UNCHANGED now

\* A caller that only starts the test (the start route).
StartLoadTest(cfg) == startLoadTest(cfg) /\ UNCHANGED <<client, probe>>

\* The mask sleep ends: continue at the loop head.
MaskWake(i) ==
    /\ workers[i].pc = "mask" /\ now >= workers[i].wake
    /\ \E r \in {workerLoop(Get(config), Get(test).startedAt, stopRef, i,
                            recentRequestTimestamps, now)} :
           Commit([workers EXCEPT ![i] = r.w], r.ts, Get(test), stopRef)

\* The inter-request delay ends: enter runOneRequest.
DelayWake(i) ==
    /\ workers[i].pc = "delay" /\ now >= workers[i].wake
    /\ \E r \in {runOneRequestEnter(Get(config), recentRequestTimestamps, now)} :
           Commit([workers EXCEPT ![i] = r.w], r.ts, Get(test), stopRef)

\* The rate-limit backoff ends: check the rate limit again.
RateWake(i) ==
    /\ workers[i].pc = "rate" /\ now >= workers[i].wake
    /\ \E r \in {runOneRequestEnter(Get(config), recentRequestTimestamps, now)} :
           Commit([workers EXCEPT ![i] = r.w], r.ts, Get(test), stopRef)

\* The fetch settles: runOneRequest returns its result, the worker aggregates
\* it and goes round its loop.
FetchReturn(i, outcome) ==
    /\ workers[i].pc = "fetch"
    /\ outcome = "timeout" => now >= workers[i].wake
    /\ \E result \in {RequestResult(outcome, workers[i].start, now)} :
       \E agg \in {Aggregate(Get(test), result, now)} :
       \E stop2 \in {stopRef \/ agg.stop} :
       \E r \in {workerLoop(Get(config), agg.state.startedAt, stop2, i,
                            recentRequestTimestamps, now)} :
           Commit([workers EXCEPT ![i] = r.w], r.ts, agg.state, stop2)

\* The spike timer fires: spawn the spike cohort.
SpikeTimerFire ==
    /\ spikeTimer.state = "pending" /\ now >= spikeTimer.wake
    /\ \E cfg \in config :
       \E sp \in {SpawnWorkers(cfg, Get(test).startedAt, stopRef,
                               cfg.concurrentUsers,
                               cfg.concurrentUsers + SpikeExtra(cfg) - 1,
                               workers, recentRequestTimestamps, now)} :
           /\ workers' = sp.ws
           /\ recentRequestTimestamps' = sp.ts
           /\ spikeTimer' = [state |-> "fired", wake |-> 0]
           /\ UNCHANGED <<now, config, test, stopRef, sched, history, client, probe>>

\* The final callback, run as a reaction of the chain.
FinalCallback(s, h, dateNow) ==
    CHOOSE out \in
      { [sched |-> [phase |-> "final", wake |-> 0],
         state |-> f.state, history |-> f.history] :
        f \in {FinalizeStep(s, h, dateNow)} } : TRUE

\* The post-base timer fires: waitSpike, then (at once if nothing is awaited)
\* the final callback.
PostBaseTimerFire ==
    /\ sched.phase = "wait" /\ now >= sched.wake
    /\ \E cfg \in config :
       \E ph \in {waitSpike(cfg, workers, spikeTimer.state = "fired")} :
       \E r \in {IF ph = "spike"
                 THEN ChainReact(cfg, workers, Get(test), history,
                                 [phase |-> "spike", wake |-> 0], now)
                 ELSE FinalCallback(Get(test), history, now)} :
           /\ test' = Some(r.state)
           /\ history' = r.history
           /\ sched' = r.sched
           /\ UNCHANGED <<now, config, stopRef, workers, recentRequestTimestamps,
                          spikeTimer, client, probe>>

\* Time passes.  A timer fires at the first observed instant at or after its due
\* time, and a fetch settles by the time its abort timer is due: the clock does
\* not move while something is due.
TimerDue ==
    \/ \E i \in DOMAIN workers : Sleeping(workers[i]) /\ now >= workers[i].wake
    \/ spikeTimer.state = "pending" /\ now >= spikeTimer.wake
    \/ sched.phase = "wait" /\ now >= sched.wake

TimerPending ==
    \/ \E i \in DOMAIN workers : Sleeping(workers[i])
    \/ spikeTimer.state = "pending"
    \/ sched.phase = "wait"

Tick ==
    /\ TimerPending
    /\ ~TimerDue
    /\ now' = now + MsPerTick
    /\ UNCHANGED <<config, test, stopRef, workers, recentRequestTimestamps,
                   spikeTimer, sched, history, client, probe>>

Next ==
    \/ \E cfg \in Configs : StartLoadTest(cfg)
    \/ \E i \in DOMAIN workers : MaskWake(i)
    \/ \E i \in DOMAIN workers : DelayWake(i)
    \/ \E i \in DOMAIN workers : RateWake(i)
    \/ \E i \in DOMAIN workers, outcome \in Outcomes : FetchReturn(i, outcome)
    \/ SpikeTimerFire
    \/ PostBaseTimerFire
    \/ Tick

Spec == Init /\ [][Next]_vars

\* The event loop keeps running callbacks while any is pending, and the clock
\* keeps moving.
FairSpec == Spec /\ WF_vars(Next)

-----------------------------------------------------------------------------
(* Engine faults *)

\* An exception escapes worker() when worker i is resumed (for instance a
\* RangeError raised inside the updater): the async function's promise rejects.
\* Nothing in startLoadTest catches it.
WorkerThrows(i) ==
    /\ Sleeping(workers[i])
    /\ workers[i].pc # "fetch" => now >= workers[i].wake
    /\ Commit([workers EXCEPT ![i] = Suspended("rejected", 0, 0)],
              recentRequestTimestamps, Get(test), stopRef)

NextWithFaults ==
    \/ Next
    \/ \E i \in DOMAIN workers : WorkerThrows(i)

SpecWithFaults == Init /\ [][NextWithFaults]_vars

-----------------------------------------------------------------------------
(* Properties *)

Started == IsSome(test)
State == Get(test)
Results == State.requestResults
Cfg == Get(config)

\* The request starts the rate limiter has admitted with a timestamp in the
\* window ending now: those of the stored results and those in flight.
StartsInWindow ==
    Cardinality({i \in 1..Len(Results) : Results[i].timestamp >= now - WINDOW_MS})
      + Cardinality({i \in DOMAIN workers :
                        workers[i].pc = "fetch" /\ workers[i].start >= now - WINDOW_MS})

RecordedInWindow ==
    Cardinality({i \in 1..Len(recentRequestTimestamps) :
                    recentRequestTimestamps[i] >= now - WINDOW_MS})

\* C1: at every instant the number of admitted request starts whose timestamp
\* lies in the last WINDOW_MS is at most the rate limit, and every admitted
\* start is recorded in the window by the step that admitted it (check and
\* record are one step, so no two requesters take the same free slot).
C1_RateLimitCap ==
    Started =>
        /\ StartsInWindow <= GLOBAL_RATE_LIMIT_RPS
        /\ Len(recentRequestTimestamps) <= GLOBAL_RATE_LIMIT_RPS
        /\ RecordedInWindow = StartsInWindow

\* The window is full and a requester has been turned away.
C1_Witness ==
    /\ Started
    /\ StartsInWindow = GLOBAL_RATE_LIMIT_RPS
    /\ \E i \in DOMAIN workers : workers[i].pc = "rate"

\* Whether the aggregation of the first k results asks for auto-stop.
StopTriggeredAt(k) ==
    LET m  == computeMetrics(SubSeq(Results, 1, k), 1000)
        ev == evaluateThresholds(m, Cfg.thresholds, now)
    IN  ev.verdict = "FAIL" /\ HasCriticalReason(ev.reasons)

\* The number of stored results when the stop flag was set: the first k whose
\* aggregation asks for auto-stop (0 if there is none).
ResultsAtStop ==
    IF \E k \in 1..Len(Results) : StopTriggeredAt(k)
    THEN CHOOSE k \in 1..Len(Results) :
            StopTriggeredAt(k) /\ \A j \in 1..(k - 1) : ~StopTriggeredAt(j)
    ELSE 0

\* C2: once the stop flag is set, the stored results grow by at most
\* N + spikeExtra further entries.
C2_BoundedGrowthAfterStop ==
    (Started /\ stopRef) =>
        /\ ResultsAtStop >= 1
        /\ Len(Results) <= ResultsAtStop + Cfg.concurrentUsers + SpikeExtra(Cfg)

\* The stop flag is set and a request that was in flight has added a result.
C2_Witness ==
    /\ Started /\ stopRef
    /\ Len(Results) > ResultsAtStop
    /\ State.status = "completed"

AggregationStep ==
    /\ Started /\ Started'
    /\ Len(State.requestResults') = Len(State.requestResults) + 1

CriticalFail(s) ==
    /\ s.thresholdVerdict = Some("FAIL")
    /\ HasCriticalReason(Get(s.verdictReasons))

OnlyP95Violated(s) ==
    /\ IsSome(s.verdictReasons)
    /\ Len(Get(s.verdictReasons)) = 1
    /\ Get(s.verdictReasons)[1].threshold = "maxP95LatencyMs"

\* C3: a step sets the stop flag exactly when it is an aggregation step whose
\* threshold evaluation yields FAIL with a maxErrorRatePercent or
\* minSuccessRatePercent reason; when maxP95LatencyMs is the only violated
\* threshold the verdict is DEGRADED; and a test whose stop flag was never set
\* completes at or after its end time.
C3_AutoStopPolicy ==
    /\ [][stopRef' = (stopRef \/ (AggregationStep /\ CriticalFail(State')))]_vars
    /\ [](Started =>
            /\ OnlyP95Violated(State) => State.thresholdVerdict = Some("DEGRADED")
            /\ (State.status = "completed" /\ ~stopRef) =>
                   Get(State.completedAt) >= EndTime(Cfg, State.startedAt))

\* A test with only the latency limit violated has run to completion without
\* the stop flag.
C3_Witness ==
    /\ Started
    /\ State.status = "completed"
    /\ OnlyP95Violated(State)
    /\ State.thresholdVerdict = Some("DEGRADED")
    /\ ~stopRef

C5_EventuallyCompleted ==
    Started ~> (Started /\ State.status = "completed")

\* A test has completed.
C5_Witness ==
    /\ Started
    /\ State.status = "completed"
    /\ Len(Results) >= 2

FixedConcurrency(cfg) ==
    \/ ~IsSome(cfg.loadPattern)
    \/ Get(cfg.loadPattern).type = "fixed_concurrency"

\* The S2 scenario: fixed concurrency, maxErrorRatePercent = L < 100, every
\* request failed with an HTTP status >= 400 and returned before the end time.
AllHttpFailuresBeforeEnd ==
    /\ Started
    /\ FixedConcurrency(Cfg)
    /\ IsSome(Cfg.thresholds)
    /\ IsSome(Get(Cfg.thresholds).maxErrorRatePercent)
    /\ Get(Get(Cfg.thresholds).maxErrorRatePercent) < 100
    /\ Len(Results) >= 1
    /\ \A i \in 1..Len(Results) :
          /\ ~Results[i].success
          /\ Results[i].statusCode = Some(500)
          /\ Results[i].timestamp + Results[i].responseTimeMs
               < EndTime(Cfg, State.startedAt)

\* C6: in the S2 scenario the test is completed before its end time with
\* thresholdVerdict FAIL, a maxErrorRatePercent reason, firstViolationAt set and
\* legacy verdict CRITICAL.
C6_AutoStopOnErrorRate ==
    (AllHttpFailuresBeforeEnd /\ State.status = "completed") =>
        /\ Get(State.completedAt) < EndTime(Cfg, State.startedAt)
        /\ State.thresholdVerdict = Some("FAIL")
        /\ \E i \in 1..Len(Get(State.verdictReasons)) :
              Get(State.verdictReasons)[i].threshold = "maxErrorRatePercent"
        /\ IsSome(State.firstViolationAt)
        /\ State.verdict = "CRITICAL"

\* The S2 scenario has run to completion with both requesters reporting.
C6_Witness ==
    /\ AllHttpFailuresBeforeEnd
    /\ State.status = "completed"
    /\ Len(Results) >= 2

\* C7: once auto-stop is reached (stop flag set, thresholdVerdict FAIL with a
\* critical reason) thresholdVerdict stays FAIL in every later state.
C7_VerdictStaysFail ==
    [][(Started /\ stopRef /\ State.thresholdVerdict = Some("FAIL"))
          => State.thresholdVerdict' = Some("FAIL")]_vars

\* C8: successfulRequests + failedRequests = totalRequests = the number of
\* stored results, and timeoutCount <= failedRequests, in every state.
C8_MetricsCounts ==
    Started =>
        /\ State.metrics.successfulRequests + State.metrics.failedRequests
             = State.metrics.totalRequests
        /\ State.metrics.totalRequests = Len(Results)
        /\ State.metrics.timeoutCount <= State.metrics.failedRequests

\* Successes, HTTP failures and timeouts have all been aggregated.
C8_Witness ==
    /\ Started
    /\ State.metrics.successfulRequests >= 1
    /\ State.metrics.timeoutCount >= 1
    /\ State.metrics.failedRequests > State.metrics.timeoutCount

\* C9: while running completedAt is undefined; once completed it is defined
\* and >= startedAt; the stored config is the config passed to startLoadTest.
C9_LifecycleFields ==
    Started =>
        /\ State.status = "running" => State.completedAt = None
        /\ State.status = "completed" =>
              /\ IsSome(State.completedAt)
              /\ Get(State.completedAt) >= State.startedAt
        /\ State.config = Cfg

\* A test has completed strictly after it started.
C9_Witness ==
    /\ Started
    /\ State.status = "completed"
    /\ IsSome(State.completedAt)
    /\ Get(State.completedAt) > State.startedAt

\* Nothing is pending: every requester has settled and no timer is armed.
Quiescent ==
    /\ Started
    /\ ~TimerPending

\* C10: after an exception has escaped a requester the test ends failed with
\* completedAt stamped and no history record.
C10_FaultEndsFailed ==
    (Quiescent /\ \E i \in DOMAIN workers : workers[i].pc = "rejected") =>
        /\ State.status = "failed"
        /\ IsSome(State.completedAt)
        /\ history = <<>>

-----------------------------------------------------------------------------
(* The history module called as a library *)

\* A record object handed to addToHistory.  ref is the object's identity: two
\* array slots with the same ref hold the same object.  verdict stands for the
\* record's fields.
NewRecord(ref, id) == [ref |-> ref, id |-> id, verdict |-> "OK"]

\* The object a caller makes itself and pushes on an array it was handed.
CallerRecord == [ref |-> 0, id |-> 0, verdict |-> "X"]

\* An assignment to a field of the object ref, as seen through the array seq.
WriteThrough(seq, ref, v) ==
    [i \in 1..Len(seq) |->
        IF seq[i].ref = ref THEN [seq[i] EXCEPT !.verdict = v] ELSE seq[i]]

\* The ids a caller asks for: those of the first records, and one that no
\* record has.
NoSuchId == 0
QueryIds == 0..MaxClientLen
IdLists == UNION {[1..n -> QueryIds] : n \in 0..MaxQueryLen}

\* The id of the next record: a fresh one, or (early on) that of the first
\* record again.
NewIds(calls) == {calls + 1} \cup (IF calls \in 1..(MaxClientLen - 1) THEN {1} ELSE {})

\* (A caller that holds a returned array adds records only while the history
\* is short.)
AddToHistoryCall(id) ==
    /\ client.calls < MaxAdds
    /\ client.returned = None \/ Len(history) <= MaxClientLen
    /\ history' = addToHistory(history, NewRecord(client.calls + 1, id))
    /\ client' = [client EXCEPT !.calls = @ + 1]
    /\ probe' = [op |-> "addToHistory", id |-> id]
    /\ UNCHANGED engineVars

GetHistoryCall ==
    /\ Len(history) <= MaxClientLen
    /\ client.returned = None
    /\ client' = [client EXCEPT !.returned = Some(getHistory(history))]
    /\ probe' = [op |-> "getHistory", out |-> getHistory(history)]
    /\ UNCHANGED <<engineVars, history>>

\* (The caller looks records up before it asks for the whole history.)
GetHistoryRecordCall(id) ==
    /\ Len(history) <= MaxClientLen
    /\ client.returned = None
    /\ probe' = [op |-> "getHistoryRecord", id |-> id,
                 out |-> getHistoryRecord(history, id)]
    /\ UNCHANGED <<engineVars, history, client>>

GetHistoryRecordsCall(ids) ==
    /\ Len(history) <= MaxClientLen
    /\ client.returned = None
    /\ probe' = [op |-> "getHistoryRecords", ids |-> ids,
                 out |-> getHistoryRecords(history, ids)]
    /\ UNCHANGED <<engineVars, history, client>>

CanMutate == IsSome(client.returned) /\ client.mutations < MaxMutations

\* returned.pop()
CallerPop ==
    /\ CanMutate
    /\ Len(Get(client.returned)) > 0
    /\ client' = [client EXCEPT
                    !.returned = Some(SubSeq(Get(@), 1, Len(Get(@)) - 1)),
                    !.mutations = @ + 1]
    /\ UNCHANGED <<engineVars, history, probe>>

\* returned.push(record)
CallerPush ==
    /\ CanMutate
    /\ client' = [client EXCEPT
                    !.returned = Some(Append(Get(@), CallerRecord)),
                    !.mutations = @ + 1]
    /\ UNCHANGED <<engineVars, history, probe>>

\* returned.reverse()
CallerReverse ==
    /\ CanMutate
    /\ Len(Get(client.returned)) > 1
    /\ client' = [client EXCEPT
                    !.returned = Some([i \in 1..Len(Get(@)) |-> Get(@)[Len(Get(@)) + 1 - i]]),
                    !.mutations = @ + 1]
    /\ UNCHANGED <<engineVars, history, probe>>

\* returned[i].verdict = "X": the object is the one the history holds.
CallerWriteField(i) ==
    /\ CanMutate
    /\ i \in 1..Len(Get(client.returned))
    /\ \E ref \in {Get(client.returned)[i].ref} :
          /\ client' = [client EXCEPT
                          !.returned = Some(WriteThrough(Get(@), ref, "X")),
                          !.mutations = @ + 1]
          /\ history' = WriteThrough(history, ref, "X")
    /\ UNCHANGED <<engineVars, probe>>

CallerMutates ==
    \/ CallerPop
    \/ CallerPush
    \/ CallerReverse
    \/ \E i \in 1..(MaxClientLen + 1) : CallerWriteField(i)

HistNext ==
    \/ \E id \in NewIds(client.calls) : AddToHistoryCall(id)
    \/ GetHistoryCall
    \/ \E id \in QueryIds : GetHistoryRecordCall(id)
    \/ \E ids \in IdLists : GetHistoryRecordsCall(ids)
    \/ CallerMutates

HistSpec == Init /\ [][HistNext]_vars

-----------------------------------------------------------------------------
(* Properties of the history module *)

\* C11: after any sequence of addToHistory calls getHistory() has at most
\* MAX_HISTORY records, lists them most recently inserted first, and holds
\* exactly the latest insertions: an insertion into a full history has dropped
\* the record inserted earliest.  (The k-th inserted record has ref k.)
C11_HistoryRing ==
    /\ Len(getHistory(history)) <= MAX_HISTORY
    /\ Len(getHistory(history)) = Min(client.calls, MAX_HISTORY)
    /\ \A i \in 1..Len(getHistory(history)) :
          getHistory(history)[i].ref = client.calls - i + 1

\* More records have been inserted than the history holds.
C11_Witness ==
    /\ client.calls > MAX_HISTORY
    /\ Len(history) = MAX_HISTORY

\* A step in which the caller changes the array getHistory() handed it, or a
\* record in it.
CallerMutationStep == client.mutations' = client.mutations + 1

\* C12: whatever the caller does to the value getHistory() returned, the
\* results of later getHistory, getHistoryRecord and getHistoryRecords calls
\* are unchanged.
C12_ReturnedCopyIsIndependent ==
    [][CallerMutationStep =>
          /\ getHistory(history') = getHistory(history)
          /\ \A id \in QueryIds :
                getHistoryRecord(history', id) = getHistoryRecord(history, id)
          /\ \A ids \in IdLists :
                getHistoryRecords(history', ids) = getHistoryRecords(history, ids)]_vars

\* C13: getHistoryRecords(ids) returns exactly the records whose id occurs in
\* ids, each once, most recent first, whatever the order or repetition of ids;
\* getHistoryRecord(id) returns undefined exactly when no record has the id.
\* (Records are compared by identity; history is kept most recent first, so
\* the refs of the result decrease.)
C13_LookupByIds ==
    /\ probe.op = "getHistoryRecords" =>
          /\ \A k \in 1..Len(probe.out) :
                /\ \E n \in 1..Len(probe.ids) : probe.ids[n] = probe.out[k].id
                /\ \E i \in 1..Len(history) : history[i].ref = probe.out[k].ref
          /\ \A i \in 1..Len(history) :
                (\E n \in 1..Len(probe.ids) : probe.ids[n] = history[i].id) =>
                    Cardinality({k \in 1..Len(probe.out) :
                                    probe.out[k].ref = history[i].ref}) = 1
          /\ \A a, b \in 1..Len(probe.out) :
                a < b => probe.out[a].ref > probe.out[b].ref
    /\ probe.op = "getHistoryRecord" =>
          /\ (probe.out = None) = (\A i \in 1..Len(history) : history[i].id # probe.id)
          /\ IsSome(probe.out) => Get(probe.out).id = probe.id

\* The ids were given oldest first, with one that no record has; the records
\* came back most recent first.
C13_Witness ==
    /\ probe.op = "getHistoryRecords"
    /\ Len(probe.ids) = 2
    /\ Len(probe.out) = 2
    /\ probe.out[1].id = probe.ids[2]
    /\ probe.out[1].id # probe.ids[1]
    /\ \E i \in 1..Len(history) : history[i].id \notin {probe.ids[1], probe.ids[2]}

-----------------------------------------------------------------------------
(* The pure functions called as a library *)

\* The response times of the results handed to computeMetrics, in ms: a fast
\* and a slow success, an HTTP failure faster than any success, a timeout
\* slower than any success.
Latency == [lo |-> 100, hi |-> 2000, http |-> 5, timeout |-> 3000]

\* A result list in completion order: nHi slow successes, then nFail HTTP
\* failures, then nLo fast successes, then nTimeout timeouts.
ResultList(nHi, nFail, nLo, nTimeout) ==
    [i \in 1..(nHi + nFail + nLo + nTimeout) |->
        IF i <= nHi THEN RequestResult("ok", 0, Latency.hi)
        ELSE IF i <= nHi + nFail THEN RequestResult("http", 0, Latency.http)
        ELSE IF i <= nHi + nFail + nLo THEN RequestResult("ok", 0, Latency.lo)
        ELSE RequestResult("timeout", 0, Latency.timeout)]

\* Successes of 100, 90, ..., 10 ms with an HTTP failure and a timeout among
\* them.
ExampleResults ==
    [i \in 1..12 |->
        IF i = 4 THEN RequestResult("http", 0, Latency.http)
        ELSE IF i = 9 THEN RequestResult("timeout", 0, Latency.timeout)
        ELSE RequestResult("ok", 0, 10 * (11 - (i - (IF i > 9 THEN 2 ELSE IF i > 4 THEN 1 ELSE 0))))]

\* The lists computeMetrics is called with.
MetricLists ==
    {ResultList(nHi, nFail, nLo, nTimeout) :
        nHi \in 0..MaxHi, nFail \in 0..1, nLo \in 0..MaxLo, nTimeout \in 0..1}
    \cup {ExampleResults}

\* Test durations in ms: one at which few requests make a throughput of at
\* least 1 per second, one at which they do not.
Durations == {1000, 30000}

\* 29 successes in 50 requests: a success rate of 58 %.
FiftyResults == ResultList(0, 21, 29, 0)

\* The metrics evaluateThresholds is called with.
ThresholdMetrics ==
    {computeMetrics(ResultList(nHi, nFail, nLo, 0), 1000) :
        nHi \in 0..1, nFail \in 0..MaxFew, nLo \in 0..MaxFew}
    \cup {computeMetrics(FiftyResults, 1000)}

\* The thresholds evaluateThresholds is called with: absent, or each limit
\* absent or at a value some metrics equal.
ThresholdInputs ==
    {None} \cup
    {Some(Thresholds(e, l, sr)) :
        e \in {None, Some(50)},
        l \in {None, Some(Latency.lo), Some(Latency.hi)},
        sr \in {None, Some(50), Some(58)}}

\* The metrics computeSafetyScore is called with.
ScoreMetrics ==
    {computeMetrics(ResultList(nHi, nFail, nLo, nTimeout), d) :
        nHi \in 0..1, nFail \in 0..MaxFail, nLo \in 0..1, nTimeout \in 0..MaxTimeouts,
        d \in Durations}

\* The patterns getConcurrencyAtWithDuration is called with.
PatternInputs ==
    {None, Some(Pattern("fixed_concurrency", None, None, None, None)),
     Some(Pattern("fixed_rps", Some(2), None, None, None))}
    \cup {Some(Pattern("ramp_up", None, r, None, None)) : r \in {None, Some(1), Some(2)}}
    \cup {Some(Pattern("spike", None, None, sc, sd)) :
            sc \in {None, Some(1), Some(4)}, sd \in {None, Some(1)}}

\* The times since start it is called at, in ms: every half second of the test.
TimesUpTo(d) == {(k * 1000) \div 2 : k \in 0..(2 * d)}

\* The calls of the ramp and spike scenarios: N = 10 ramping over 10 s and N = 3
\* with a spike of 12 over the last 2 of 10 s, each half second until a second
\* after the end; N = 5 ramping over 3 s, every 200 ms.
ScenarioCalls ==
    {[pattern |-> Some(Pattern("ramp_up", None, Some(10), None, None)),
      t |-> k * 500, d |-> 10, n |-> 10] : k \in 0..22}
    \cup {[pattern |-> Some(Pattern("spike", None, None, Some(12), Some(2))),
           t |-> k * 500, d |-> 10, n |-> 3] : k \in 0..22}
    \cup {[pattern |-> Some(Pattern("ramp_up", None, Some(3), None, None)),
           t |-> k * 200, d |-> 3, n |-> 5] : k \in 0..16}

GetConcurrencyCall(pattern, t, d, n) ==
    /\ probe.op = "none"
    /\ probe' = [op |-> "getConcurrencyAtWithDuration", pattern |-> pattern,
                 timeSinceStartMs |-> t, durationSeconds |-> d,
                 defaultConcurrency |-> n,
                 out |-> getConcurrencyAtWithDuration(pattern, t, d, n)]
    /\ UNCHANGED <<engineVars, history, client>>

ComputeMetricsCall(results, durationMs) ==
    /\ probe.op = "none"
    /\ probe' = [op |-> "computeMetrics", results |-> results,
                 durationMs |-> durationMs,
                 out |-> computeMetrics(results, durationMs)]
    /\ UNCHANGED <<engineVars, history, client>>

EvaluateThresholdsCall(metrics, thresholds) ==
    /\ probe.op = "none"
    /\ probe' = [op |-> "evaluateThresholds", metrics |-> metrics,
                 thresholds |-> thresholds,
                 out |-> evaluateThresholds(metrics, thresholds, now)]
    /\ UNCHANGED <<engineVars, history, client>>

ComputeSafetyScoreCall(metrics) ==
    /\ probe.op = "none"
    /\ probe' = [op |-> "computeSafetyScore", metrics |-> metrics,
                 out |-> computeSafetyScore(metrics)]
    /\ UNCHANGED <<engineVars, history, client>>

\* computeSafetyScore called on the metrics of two runs of the same length:
\* nOk fast successes and nFail failures, all timeouts in one run and all HTTP
\* errors in the other.
ScoreFailureKindsCall(nOk, nFail, durationMs) ==
    /\ probe.op = "none"
    /\ probe' = [op |-> "computeSafetyScore twice",
                 total |-> nOk + nFail, failed |-> nFail,
                 timeouts |-> computeSafetyScore(
                                 computeMetrics(ResultList(0, 0, nOk, nFail), durationMs)),
                 http |-> computeSafetyScore(
                             computeMetrics(ResultList(0, nFail, nOk, 0), durationMs))]
    /\ UNCHANGED <<engineVars, history, client>>

\* The state of a test started at 0 whose results so far are results, the last
\* of them aggregated at dateNow.
StateAfter(results, dateNow) ==
    IF results = <<>> THEN InitialState(CfgRps, 0)
    ELSE Aggregate([InitialState(CfgRps, 0) EXCEPT
                       !.requestResults = SubSeq(results, 1, Len(results) - 1)],
                   results[Len(results)], dateNow).state

\* The updater of worker() on a state with nFail HTTP failures and nLo
\* successes, for one more result.
UpdaterCall(nFail, nLo, outcome) ==
    /\ probe.op = "none"
    /\ probe' = [op |-> "updater", outcome |-> outcome,
                 out |-> Aggregate(StateAfter(ResultList(0, nFail, nLo, 0), now),
                                   RequestResult(outcome, 0, Latency.lo), now).state]
    /\ UNCHANGED <<engineVars, history, client>>

\* The final callback on such a state.
FinalCallbackCall(nFail, nLo) ==
    /\ probe.op = "none"
    /\ probe' = [op |-> "final callback",
                 out |-> Finalize(StateAfter(ResultList(0, nFail, nLo, 0), now), now)]
    /\ UNCHANGED <<engineVars, history, client>>

PureNext ==
    \/ \E pattern \in PatternInputs, d \in 1..MaxDuration, n \in 1..MaxUsers :
         \E t \in TimesUpTo(d) : GetConcurrencyCall(pattern, t, d, n)
    \/ \E c \in ScenarioCalls : GetConcurrencyCall(c.pattern, c.t, c.d, c.n)
    \/ \E results \in MetricLists, durationMs \in Durations :
         ComputeMetricsCall(results, durationMs)
    \/ \E metrics \in ThresholdMetrics, thresholds \in ThresholdInputs :
         EvaluateThresholdsCall(metrics, thresholds)
    \/ \E metrics \in ScoreMetrics : ComputeSafetyScoreCall(metrics)
    \/ \E nOk \in 0..MaxFew, nFail \in 1..MaxFail, durationMs \in Durations :
         ScoreFailureKindsCall(nOk, nFail, durationMs)
    \/ \E nFail \in 0..MaxFail, nLo \in 0..MaxFail, outcome \in {"ok", "http"} :
         UpdaterCall(nFail, nLo, outcome)
    \/ \E nFail \in 0..MaxFail, nLo \in 0..MaxFail : FinalCallbackCall(nFail, nLo)

PureSpec == Init /\ [][PureNext]_vars

-----------------------------------------------------------------------------
(* Properties of the pure functions *)

\* p.spikeConcurrency ?? n
SpikeConcurrencyOr(pattern, n) ==
    IF IsSome(pattern) /\ IsSome(Get(pattern).spikeConcurrency)
    THEN Get(Get(pattern).spikeConcurrency) ELSE n

\* C14: for any pattern p (a spike pattern without spikeConcurrency included),
\* D, N >= 1 and t in [0, D * 1000], getConcurrencyAtWithDuration(p, t, D, N) is
\* at least 1 and at most max(N, p.spikeConcurrency ?? N).
C14_ConcurrencyWithinBounds ==
    probe.op = "getConcurrencyAtWithDuration" =>
        /\ 1 <= probe.out
        /\ probe.out <= Max(probe.defaultConcurrency,
                            SpikeConcurrencyOr(probe.pattern, probe.defaultConcurrency))

\* The call of computeMetrics on a list with at least one success.
MetricsOfSuccesses ==
    /\ probe.op = "computeMetrics"
    /\ \E i \in 1..Len(probe.results) : probe.results[i].success

\* C15 as stated: for any result list with at least one success, computeMetrics
\* returns minResponseTime <= avgResponseTime <= p95ResponseTime <=
\* p99ResponseTime <= maxResponseTime.
C15_PercentileMonotonicity ==
    MetricsOfSuccesses =>
        /\ probe.out.minResponseTime <= probe.out.avgResponseTime
        /\ probe.out.avgResponseTime <= probe.out.p95ResponseTime
        /\ probe.out.p95ResponseTime <= probe.out.p99ResponseTime
        /\ probe.out.p99ResponseTime <= probe.out.maxResponseTime

\* C15, amended: for any result list with at least one success, the average
\* lies between the minimum and the maximum, and minResponseTime <=
\* p95ResponseTime <= p99ResponseTime <= maxResponseTime; the average and the
\* 95th percentile are not ordered.
C15_LatencyOrder ==
    MetricsOfSuccesses =>
        /\ probe.out.minResponseTime <= probe.out.avgResponseTime
        /\ probe.out.avgResponseTime <= probe.out.maxResponseTime
        /\ probe.out.minResponseTime <= probe.out.p95ResponseTime
        /\ probe.out.p95ResponseTime <= probe.out.p99ResponseTime
        /\ probe.out.p99ResponseTime <= probe.out.maxResponseTime

\* computeMetrics has been called on more than 20 successes, one of them slow
\* and first in the list: the average is above the 95th percentile.
C15_Witness ==
    /\ MetricsOfSuccesses
    /\ probe.out.successfulRequests > 20
    /\ probe.results[1].responseTimeMs = Latency.hi
    /\ probe.out.avgResponseTime > probe.out.p95ResponseTime
    /\ probe.out.minResponseTime < probe.out.maxResponseTime

\* The response times of the successful results, as a set, and how many
\* successes took at most x ms.
SuccessValues(results) ==
    {results[i].responseTimeMs : i \in {j \in 1..Len(results) : results[j].success}}

SuccessesUpTo(results, x) ==
    Cardinality({i \in 1..Len(results) :
                    results[i].success /\ results[i].responseTimeMs <= x})

\* v[k] of the sorted success times v (k from 0): the least success time that
\* more than k successes do not exceed.
SortedSuccess(results, k) ==
    CHOOSE x \in SuccessValues(results) :
        /\ SuccessesUpTo(results, x) > k
        /\ \A y \in SuccessValues(results) : y < x => SuccessesUpTo(results, y) <= k

\* v[floor(r)] + (r - floor(r)) * (v[ceil(r)] - v[floor(r)]) with r = (L-1)*p,
\* p = pct/100, in hundredths.
InterpolatedPercentile(results, pct) ==
    LET r100 == (SuccessesUpTo(results, Latency.timeout) - 1) * pct
        lo   == r100 \div 100
        hi   == (r100 + 99) \div 100
    IN  SortedSuccess(results, lo) * 100
          + (r100 - 100 * lo) * (SortedSuccess(results, hi) - SortedSuccess(results, lo))

\* The sum of the success times: each value times the number of successes
\* that took exactly that long.
RECURSIVE SumOfValues(_, _)
SumOfValues(results, values) ==
    IF values = {} THEN 0
    ELSE LET x == CHOOSE y \in values : \A z \in values : y <= z
         IN  x * Cardinality({i \in 1..Len(results) :
                                 results[i].success /\ results[i].responseTimeMs = x})
               + SumOfValues(results, values \ {x})

\* C16: computeMetrics derives min, max, avg, p95 and p99 from the response
\* times of the successful results alone, the percentiles by linear
\* interpolation at rank (L-1)*p of the sorted success times; for successes of
\* 10, 20, ..., 100 ms p95 is 95.5, p99 is 99.1 and avg is 55.0; without
\* successes all five are 0.
C16_LatencyFromSuccesses ==
    probe.op = "computeMetrics" =>
        LET results == probe.results
            L == SuccessesUpTo(results, Latency.timeout)
        IN  /\ L = 0 =>
                 /\ probe.out.minResponseTime = 0
                 /\ probe.out.maxResponseTime = 0
                 /\ probe.out.avgResponseTime = 0
                 /\ probe.out.p95ResponseTime = 0
                 /\ probe.out.p99ResponseTime = 0
            /\ L > 0 =>
                 /\ probe.out.minResponseTime = SortedSuccess(results, 0) * 100
                 /\ probe.out.maxResponseTime = SortedSuccess(results, L - 1) * 100
                 /\ probe.out.avgResponseTime
                      = RoundDiv(SumOfValues(results, SuccessValues(results)) * 100, L)
                 /\ probe.out.p95ResponseTime = InterpolatedPercentile(results, 95)
                 /\ probe.out.p99ResponseTime = InterpolatedPercentile(results, 99)
            /\ results = ExampleResults =>
                 /\ probe.out.p95ResponseTime = 9550
                 /\ probe.out.p99ResponseTime = 9910
                 /\ probe.out.avgResponseTime = 5500

\* computeMetrics has been called on the successes of 100, 90, ..., 10 ms
\* mixed with a faster HTTP failure and a slower timeout.
C16_Witness ==
    /\ probe.op = "computeMetrics"
    /\ probe.results = ExampleResults
    /\ probe.out.failedRequests = 2
    /\ probe.out.p95ResponseTime = 9550
    /\ probe.out.minResponseTime = 1000
    /\ probe.out.maxResponseTime = 10000

\* The reason list names the threshold.
HasReason(reasons, name) == \E i \in 1..Len(reasons) : reasons[i].threshold = name

\* The limit is present and the metric value (in hundredths) is above it.
AboveLimit(value, limit) == IsSome(limit) /\ value > Get(limit) * 100

\* C17: evaluateThresholds returns PASS with no reasons when thresholds are
\* absent or none is violated, FAIL exactly when a maxErrorRatePercent or
\* minSuccessRatePercent reason is produced (with or without a latency
\* violation), DEGRADED exactly when maxP95LatencyMs is the only violated
\* threshold; firstViolationAt is defined exactly when there is a reason.  A
\* success rate strictly below its limit is violated, one strictly above is
\* not; the rate equal to the limit is the subject of C18.
C17_ThresholdVerdict ==
    probe.op = "evaluateThresholds" =>
        LET out == probe.out
            m   == probe.metrics
            critical == \/ HasReason(out.reasons, "maxErrorRatePercent")
                        \/ HasReason(out.reasons, "minSuccessRatePercent")
        IN  /\ out.verdict \in {"PASS", "DEGRADED", "FAIL"}
            /\ out.verdict = "PASS" <=> out.reasons = <<>>
            /\ out.verdict = "FAIL" <=> critical
            /\ out.verdict = "DEGRADED" <=>
                   HasReason(out.reasons, "maxP95LatencyMs") /\ ~critical
            /\ IsSome(out.firstViolationAt) <=> Len(out.reasons) > 0
            /\ ~IsSome(probe.thresholds) => out.reasons = <<>>
            /\ IsSome(probe.thresholds) =>
                 LET th == Get(probe.thresholds) IN
                 /\ HasReason(out.reasons, "maxErrorRatePercent")
                      <=> AboveLimit(m.errorRatePercentage, th.maxErrorRatePercent)
                 /\ HasReason(out.reasons, "maxP95LatencyMs")
                      <=> AboveLimit(m.p95ResponseTime, th.maxP95LatencyMs)
                 /\ HasReason(out.reasons, "minSuccessRatePercent")
                      => IsSome(th.minSuccessRatePercent)
                 /\ IsSome(th.minSuccessRatePercent) /\ m.totalRequests > 0 =>
                      /\ m.successfulRequests * 100
                           < Get(th.minSuccessRatePercent) * m.totalRequests
                         => HasReason(out.reasons, "minSuccessRatePercent")
                      /\ m.successfulRequests * 100
                           > Get(th.minSuccessRatePercent) * m.totalRequests
                         => ~HasReason(out.reasons, "minSuccessRatePercent")

\* evaluateThresholds has been called with all three limits violated: FAIL
\* with three reasons, the latency violation included, stamped with the time.
C17_Witness ==
    /\ probe.op = "evaluateThresholds"
    /\ probe.out.verdict = "FAIL"
    /\ Len(probe.out.reasons) = 3
    /\ probe.out.firstViolationAt = Some(now)

\* C18: the comparisons are strict: an error rate exactly equal to
\* maxErrorRatePercent, a success rate exactly equal to minSuccessRatePercent
\* or a p95 exactly equal to maxP95LatencyMs produces no reason; with no
\* requests the success rate is taken as 100.
C18_StrictComparisons ==
    probe.op = "evaluateThresholds" /\ IsSome(probe.thresholds) =>
        LET out == probe.out
            m   == probe.metrics
            th  == Get(probe.thresholds)
        IN  /\ IsSome(th.maxErrorRatePercent)
               /\ m.errorRatePercentage = Get(th.maxErrorRatePercent) * 100
               => ~HasReason(out.reasons, "maxErrorRatePercent")
            /\ IsSome(th.maxP95LatencyMs)
               /\ m.p95ResponseTime = Get(th.maxP95LatencyMs) * 100
               => ~HasReason(out.reasons, "maxP95LatencyMs")
            /\ IsSome(th.minSuccessRatePercent) /\ m.totalRequests > 0
               /\ m.successfulRequests * 100
                    = Get(th.minSuccessRatePercent) * m.totalRequests
               => ~HasReason(out.reasons, "minSuccessRatePercent")
            /\ IsSome(th.minSuccessRatePercent) /\ m.totalRequests = 0
               => (HasReason(out.reasons, "minSuccessRatePercent")
                     <=> 100 < Get(th.minSuccessRatePercent))

\* C19: for every metrics value computeSafetyScore returns an integer score in
\* [0, 100], labelled SAFE iff score >= 80, WARNING iff 50 <= score <= 79 and
\* DANGEROUS iff score < 50.
C19_ScoreRangeAndLabel ==
    probe.op = "computeSafetyScore" =>
        /\ probe.out.score \in 0..100
        /\ probe.out.label \in {"SAFE", "WARNING", "DANGEROUS"}
        /\ probe.out.label = "SAFE" <=> probe.out.score >= 80
        /\ probe.out.label = "WARNING" <=> probe.out.score \in 50..79
        /\ probe.out.label = "DANGEROUS" <=> probe.out.score < 50

\* computeSafetyScore has been called on a slow run of mostly failures at low
\* throughput, whose penalties add up to more than 100: the score is 0.
C19_Witness ==
    /\ probe.op = "computeSafetyScore"
    /\ probe.metrics.failedRequests - probe.metrics.timeoutCount >= 8
    /\ probe.metrics.timeoutCount >= 3
    /\ probe.metrics.p95ResponseTime = Latency.hi * 100
    /\ probe.metrics.requestsPerSecond < 100
    /\ probe.out.score = 0
    /\ probe.out.label = "DANGEROUS"

\* C20: timeouts are penalised more than HTTP errors: of two runs with
\* otherwise equal metrics and the same failure rate r > 0, the run whose
\* failures are all timeouts gets a safety score no higher than the run whose
\* failures are all HTTP errors.
C20_TimeoutsScoreNoHigher ==
    probe.op = "computeSafetyScore twice" /\ probe.failed > 0 =>
        probe.timeouts.score <= probe.http.score

-----------------------------------------------------------------------------
(* Further properties of the engine *)

\* C21: the stored requestResults are ordered by request start: of any two
\* stored results the one earlier in the list has the smaller or equal
\* timestamp, also when requesters run concurrently and finish out of start
\* order.
C21_ResultsOrderedByStart ==
    Started =>
        \A i, j \in 1..Len(Results) :
            i < j => Results[i].timestamp <= Results[j].timestamp

\* The step in which startLoadTest is called and returns.
StartStep == ~Started /\ Started'

\* C22: when startLoadTest(config) returns, getTest(id) yields a state with
\* status running, the given config, all metrics zero, no results, no time
\* series, legacy verdict OK, no completedAt and no safety score: no result has
\* been aggregated before the call returns.
C22_InitialState ==
    [][StartStep =>
         /\ config' # None
         /\ State'.id = "test"
         /\ State'.status = "running"
         /\ State'.config = Get(config')
         /\ State'.startedAt = now
         /\ State'.metrics = ZeroMetrics
         /\ \A f \in DOMAIN State'.metrics : State'.metrics[f] = 0
         /\ State'.requestResults = <<>>
         /\ State'.timeSeries = <<>>
         /\ State'.verdict = "OK"
         /\ State'.completedAt = None
         /\ State'.safetyScore = None]_vars

\* startLoadTest has returned: the requesters are spawned, one has a request
\* in flight, and the state is the initial one.
C22_Witness ==
    /\ Started
    /\ State.status = "running"
    /\ State.startedAt = now
    /\ State.requestResults = <<>>
    /\ State.metrics = ZeroMetrics
    /\ \E i \in DOMAIN workers : workers[i].pc = "fetch"

\* C30: a test's safetyScore is defined if and only if its status is
\* completed: it is not set while the test runs, and the transition to
\* completed sets it.
C30_ScoreIffCompleted ==
    /\ [](Started => (IsSome(State.safetyScore) <=> State.status = "completed"))
    /\ [][Started /\ Started' /\ State.status = "running" /\ State'.status = "completed"
            => State'.safetyScore = Some(computeSafetyScore(State'.metrics))]_vars

\* A test has completed with results and carries the score of its final
\* metrics.
C30_Witness ==
    /\ Started
    /\ State.status = "completed"
    /\ Len(Results) > 0
    /\ State.safetyScore = Some(computeSafetyScore(State.metrics))

\* The threshold evaluation of the state has produced a reason.
HasReasons(st) == IsSome(st.verdictReasons) /\ Len(Get(st.verdictReasons)) > 0

\* C25: firstViolationAt has first-only semantics: it is undefined until the
\* first aggregation step whose threshold evaluation produces a reason, that
\* step sets it (to the time of the evaluation), and no later step, violating
\* evaluations and finalization included, overwrites or clears it.
C25_FirstViolationOnce ==
    /\ [][StartStep => State'.firstViolationAt = None]_vars
    /\ [][Started /\ Started' =>
            /\ IsSome(State.firstViolationAt)
                 => State'.firstViolationAt = State.firstViolationAt
            /\ ~IsSome(State.firstViolationAt) /\ IsSome(State'.firstViolationAt)
                 => AggregationStep /\ HasReasons(State')
                      /\ State'.firstViolationAt = Some(now)
            /\ AggregationStep /\ HasReasons(State')
                 => IsSome(State'.firstViolationAt)]_vars
    /\ [](Started /\ ~IsSome(State.firstViolationAt) => ~HasReasons(State))

\* A completed test whose last result was aggregated, with a reason, after the
\* time that firstViolationAt keeps.
C25_Witness ==
    /\ Started
    /\ State.status = "completed"
    /\ HasReasons(State)
    /\ IsSome(State.firstViolationAt)
    /\ Len(Results) >= 2
    /\ Get(State.firstViolationAt)
         < Results[Len(Results)].timestamp + Results[Len(Results)].responseTimeMs

\* Requests in flight: requesters suspended at their fetch.
InFlight(ws) == Cardinality({i \in DOMAIN ws : ws[i].pc = "fetch"})

\* Entries of the limiter's window recorded at time t.
CountAt(ts, t) == Cardinality({k \in DOMAIN ts : ts[k] = t})

\* Request starts the limiter admits in the step: entries recorded at the
\* step's time (pruning removes older entries only).
AdmittedInStep ==
    CountAt(recentRequestTimestamps', now') - CountAt(recentRequestTimestamps, now')

\* C26: the rate limiter delays but never drops requests.  A requester in the
\* backoff loop leaves it only by being admitted, and is eventually admitted
\* (again and again no requester is in the backoff loop);
\* every admitted start is one request in flight and every request in flight
\* ends as one stored result, so results plus requests in flight grow exactly
\* by the admitted starts; a completed test has no request pending, so its
\* stored results number its admitted starts.
C26_DelayedNeverDropped ==
    /\ [][\A i \in DOMAIN workers :
             workers[i].pc = "rate" =>
                 /\ i \in DOMAIN workers'
                 /\ workers'[i].pc \in {"rate", "fetch"}]_vars
    /\ [][\A i \in DOMAIN workers :
             workers[i].pc = "delay" =>
                 /\ i \in DOMAIN workers'
                 /\ workers'[i].pc \in {"delay", "rate", "fetch"}]_vars
    /\ [][Started /\ Started' =>
             \A i \in DOMAIN workers' :
                 /\ workers'[i].pc = "done"
                 /\ i \in DOMAIN workers => workers[i].pc # "done"
                 => stopRef' \/ ~(now < EndTime(Cfg, State'.startedAt))]_vars
    /\ [][StartStep => Len(Results') + InFlight(workers') = AdmittedInStep]_vars
    /\ [][Started /\ Started' =>
             (Len(Results') + InFlight(workers'))
               - (Len(Results) + InFlight(workers)) = AdmittedInStep]_vars
    /\ [](Started /\ State.status = "completed" =>
             \A i \in DOMAIN workers : workers[i].pc \in {"done", "unspawned"})
    /\ []<>(\A i \in DOMAIN workers : workers[i].pc # "rate")

\* A requester is held back by the limiter while results are already stored.
C26_Witness ==
    /\ Started
    /\ State.status = "running"
    /\ Len(Results) > 0
    /\ \E i \in DOMAIN workers : workers[i].pc = "rate"

-----------------------------------------------------------------------------
(* A test and the tests that complete after it *)

\* generateId() of the n-th later test: ids differ from test to test.
LaterId(n) == "test_" \o ToString(n)

\* getTest(id) on the store, of which the model keeps the first test's entry.
getTest(id) == IF Started /\ State.id = id THEN test ELSE None

\* A later test runs and completes after the first test has completed.  Its
\* setTest and updateTest calls are on its own id, so the first test's entry
\* is left as it is; its final callback passes its record to addToHistory.
\* (client.calls counts the later tests.)
LaterTestCompletes ==
    /\ sched.phase = "final"
    /\ client.calls < MaxAdds
    /\ history' = addToHistory(history,
                     [HistoryRecord(State) EXCEPT !.id = LaterId(client.calls + 1)])
    /\ client' = [client EXCEPT !.calls = @ + 1]
    /\ UNCHANGED <<engineVars, probe>>

LifeNext ==
    \/ StartLoadTest(CfgRps)
    \/ \E i \in DOMAIN workers : DelayWake(i)
    \/ \E i \in DOMAIN workers, outcome \in Outcomes : FetchReturn(i, outcome)
    \/ PostBaseTimerFire
    \/ Tick
    \/ LaterTestCompletes

LifeSpec == Init /\ [][LifeNext]_vars

\* C23 as stated: a completed test is found by id in the live store and in the
\* history, however many tests have completed after it.
C23_AlwaysQueryable ==
    Started /\ State.status = "completed" =>
        /\ getTest(State.id) = Some(State)
        /\ IsSome(getHistoryRecord(history, State.id))

\* C23, amended: a completed test is found by id in the live store however
\* many tests complete after it, and in the history, as the record of its own
\* completion, exactly until MAX_HISTORY later tests have completed.
C23_QueryableWhileRecent ==
    Started /\ State.status = "completed" =>
        /\ getTest(State.id) = Some(State)
        /\ client.calls < MAX_HISTORY
             => getHistoryRecord(history, State.id) = Some(HistoryRecord(State))
        /\ client.calls >= MAX_HISTORY
             => getHistoryRecord(history, State.id) = None

\* The last later completion that still leaves the test's record in the history.
C23_Witness ==
    /\ Started
    /\ State.status = "completed"
    /\ client.calls = MAX_HISTORY - 1
    /\ Len(history) = MAX_HISTORY
    /\ getHistoryRecord(history, State.id) = Some(history[MAX_HISTORY])

-----------------------------------------------------------------------------
(* Properties of the load patterns *)

\* A call of getConcurrencyAtWithDuration with a pattern of the given type.
PatternCall(type) ==
    /\ probe.op = "getConcurrencyAtWithDuration"
    /\ IsSome(probe.pattern)
    /\ Get(probe.pattern).type = type

\* A call with a spike pattern that gives both spikeConcurrency and
\* spikeDurationSeconds.
SpikeCall ==
    /\ PatternCall("spike")
    /\ IsSome(Get(probe.pattern).spikeConcurrency)
    /\ IsSome(Get(probe.pattern).spikeDurationSeconds)

\* C28: for a spike pattern with spikeConcurrency S and spikeDurationSeconds d,
\* getConcurrencyAtWithDuration returns S exactly when max(0, D - d) <= t / 1000
\* < max(0, D - d) + d, and N otherwise (N = 3, D = 10, S = 12, d = 2: 3 before
\* 8 s, 12 from 8 s to before 10 s, 3 from 10 s on); with d = D the spike starts
\* at t = 0 and covers the whole test.
C28_SpikeWindow ==
    SpikeCall =>
        LET S  == Get(Get(probe.pattern).spikeConcurrency)
            d  == Get(Get(probe.pattern).spikeDurationSeconds)
            D  == probe.durationSeconds
            N  == probe.defaultConcurrency
            t  == probe.timeSinceStartMs
            s0 == IF D - d > 0 THEN D - d ELSE 0
        IN  /\ s0 * 1000 <= t /\ t < (s0 + d) * 1000 => probe.out = S
            /\ ~(s0 * 1000 <= t /\ t < (s0 + d) * 1000) => probe.out = N
            /\ N = 3 /\ D = 10 /\ S = 12 /\ d = 2 =>
                  /\ t < 8000 => probe.out = 3
                  /\ 8000 <= t /\ t < 10000 => probe.out = 12
                  /\ t >= 10000 => probe.out = 3
            /\ d = D /\ t < D * 1000 => probe.out = S

\* The call at the end of the spike of the scenario (the first time outside the
\* window), which returns N again.
C28_Witness ==
    /\ SpikeCall
    /\ probe.defaultConcurrency = 3 /\ probe.durationSeconds = 10
    /\ probe.timeSinceStartMs = 10000
    /\ probe.out = 3

\* C29: for a ramp_up pattern with rampUpSeconds R >= 1,
\* getConcurrencyAtWithDuration returns max(1, floor(N * t / R)) for t < R and N
\* for t >= R (t in seconds), is non-decreasing in t, and with R = D first
\* returns N exactly at t = D (N = 10, R = 10: 1 at 0 s, 5 at 5 s, 10 from 10 s
\* on).
C29_RampFormula ==
    PatternCall("ramp_up") /\ IsSome(Get(probe.pattern).rampUpSeconds) =>
        LET R == Get(Get(probe.pattern).rampUpSeconds)
            D == probe.durationSeconds
            N == probe.defaultConcurrency
            t == probe.timeSinceStartMs
        IN  /\ t < R * 1000 => probe.out = Max(1, (N * t) \div (R * 1000))
            /\ t >= R * 1000 => probe.out = N
            /\ \A c \in ScenarioCalls :
                  c.pattern = probe.pattern /\ c.n = N /\ c.d = D /\ c.t <= t
                  => getConcurrencyAtWithDuration(c.pattern, c.t, c.d, c.n) <= probe.out
            /\ R = D /\ N > 1 /\ t < D * 1000 => probe.out < N
            /\ N = 10 /\ R = 10 =>
                  /\ t = 0 => probe.out = 1
                  /\ t = 5000 => probe.out = 5
                  /\ t >= 10000 => probe.out = 10

-----------------------------------------------------------------------------
(* The run-headless route *)

\* The cap on the wait for completion, scaled down from the program's 320000 ms
\* so that a test outlasts it.
MAX_WAIT_MS == 2000

POLL_MS == 500

\* The config the route builds from the request body: Number(x) || default,
\* clamped.
HeadlessConfig(body) ==
    [body EXCEPT
       !.concurrentUsers  = Max(1, Min(100, IF @ = 0 THEN 5 ELSE @)),
       !.durationSeconds  = Max(1, Min(300, IF @ = 0 THEN 10 ELSE @)),
       !.requestTimeoutMs = Max(1000, Min(60000, IF @ = 0 THEN 5000 ELSE @))]

\* state.thresholdVerdict ?? (CRITICAL: FAIL, UNSTABLE: DEGRADED, else PASS)
HeadlessVerdict(state) ==
    IF IsSome(state.thresholdVerdict) THEN Get(state.thresholdVerdict)
    ELSE IF state.verdict = "CRITICAL" THEN "FAIL"
    ELSE IF state.verdict = "UNSTABLE" THEN "DEGRADED"
    ELSE "PASS"

\* A plausible slip: anything but PASS exits with 1.
ExitCodeBoolean(verdict) == IF verdict = "PASS" THEN 0 ELSE 1

\* verdict === "PASS" ? 0 : verdict === "DEGRADED" ? 1 : 2
ExitCode(verdict) ==
    IF verdict = "PASS" THEN 0 ELSE IF verdict = "DEGRADED" THEN 1 ELSE 2

\* The route suspended at the sleep of its polling loop.
Polling == probe.op = "run-headless" /\ probe.pc = "sleep"

\* POST with an allowed targetUrl: start the test and enter the polling loop
\* (0 < MAX_WAIT_MS), up to its sleep.
HeadlessPost(body) ==
    /\ probe.op = "none"
    /\ startLoadTest(HeadlessConfig(body))
    /\ probe' = [op |-> "run-headless", pc |-> "sleep",
                 startWait |-> now, wake |-> now + POLL_MS]
    /\ UNCHANGED client

\* The sleep of the polling loop ends: answer if the test has left running;
\* otherwise go round the loop, which ends with the 408 answer once
\* MAX_WAIT_MS have passed.
PollWake ==
    /\ Polling /\ now >= probe.wake
    /\ \E state \in test :
          probe' =
            IF state.status \in {"completed", "failed"}
            THEN [op |-> "run-headless", pc |-> "answered",
                  startWait |-> probe.startWait, at |-> now, httpStatus |-> 200,
                  status |-> state.status,
                  verdict |-> HeadlessVerdict(state),
                  exitCode |-> ExitCode(HeadlessVerdict(state)),
                  thresholdVerdict |-> state.thresholdVerdict]
            ELSE IF now - probe.startWait < MAX_WAIT_MS
            THEN [probe EXCEPT !.wake = now + POLL_MS]
            ELSE [op |-> "run-headless", pc |-> "answered",
                  startWait |-> probe.startWait, at |-> now, httpStatus |-> 408]
    /\ UNCHANGED <<engineVars, history, client>>

\* Time passes while the engine or the route waits for a timer, and none is due.
HeadlessTick ==
    /\ TimerPending \/ Polling
    /\ ~TimerDue
    /\ ~(Polling /\ now >= probe.wake)
    /\ now' = now + MsPerTick
    /\ UNCHANGED <<config, test, stopRef, workers, recentRequestTimestamps,
                   spikeTimer, sched, history, client, probe>>

HeadlessNext ==
    \/ \E body \in Configs : HeadlessPost(body)
    \/ \E i \in DOMAIN workers : MaskWake(i)
    \/ \E i \in DOMAIN workers : DelayWake(i)
    \/ \E i \in DOMAIN workers : RateWake(i)
    \/ \E i \in DOMAIN workers, outcome \in Outcomes : FetchReturn(i, outcome)
    \/ SpikeTimerFire
    \/ PostBaseTimerFire
    \/ PollWake
    \/ HeadlessTick

HeadlessSpec == Init /\ [][HeadlessNext]_vars

\* The route has answered.
Answered == probe.op = "run-headless" /\ probe.pc = "answered"

\* C24: the headless run reports exitCode 0 iff the finished test's threshold
\* verdict is PASS, 1 iff DEGRADED and 2 iff FAIL, and it answers only after
\* the test has left status running, or with an error (and no exit code) once
\* the cap on the wait has passed.
C24_HeadlessExitCode ==
    Answered =>
        \/ /\ probe.httpStatus = 200
           /\ Started /\ State.status # "running"
           /\ probe.status = State.status
           /\ probe.exitCode = 0 <=> State.thresholdVerdict = Some("PASS")
           /\ probe.exitCode = 1 <=> State.thresholdVerdict = Some("DEGRADED")
           /\ probe.exitCode = 2 <=> State.thresholdVerdict = Some("FAIL")
        \/ /\ probe.httpStatus = 408
           /\ "exitCode" \notin DOMAIN probe
           /\ probe.at - probe.startWait >= MAX_WAIT_MS

\* The route answers with exit code 1 for a test that ended DEGRADED.
C24_Witness ==
    /\ Answered
    /\ probe.httpStatus = 200
    /\ probe.exitCode = 1
    /\ State.status = "completed"
    /\ State.thresholdVerdict = Some("DEGRADED")

-----------------------------------------------------------------------------
(* The engine with a stub requester *)

\* Every request of the stub succeeds after Latency.lo ms.  Time is followed to
\* the millisecond: the clock moves to the next instant at which a timer or an
\* answer is due.

\* The configs of the engine, without thresholds.
StubConfigs == {[c EXCEPT !.thresholds = None] : c \in Configs}

\* The instants at which something is due.
StubDueTimes ==
    {workers[i].wake : i \in {j \in DOMAIN workers :
                                 workers[j].pc \in {"mask", "delay", "rate"}}}
    \cup {workers[i].start + Latency.lo :
            i \in {j \in DOMAIN workers : workers[j].pc = "fetch"}}
    \cup (IF spikeTimer.state = "pending" THEN {spikeTimer.wake} ELSE {})
    \cup (IF sched.phase = "wait" THEN {sched.wake} ELSE {})

\* The stub answers: a success, Latency.lo ms after the request's start.
StubFetchReturn(i) ==
    /\ workers[i].pc = "fetch"
    /\ now = workers[i].start + Latency.lo
    /\ FetchReturn(i, "ok")

\* The clock moves to the next due instant, once nothing is due.
StubTick ==
    /\ StubDueTimes # {}
    /\ \A t \in StubDueTimes : t > now
    /\ now' = CHOOSE t \in StubDueTimes : \A u \in StubDueTimes : t <= u
    /\ UNCHANGED <<config, test, stopRef, workers, recentRequestTimestamps,
                   spikeTimer, sched, history, client, probe>>

StubNext ==
    \/ \E cfg \in StubConfigs : StartLoadTest(cfg)
    \/ \E i \in DOMAIN workers : MaskWake(i)
    \/ \E i \in DOMAIN workers : DelayWake(i)
    \/ \E i \in DOMAIN workers : RateWake(i)
    \/ \E i \in DOMAIN workers : StubFetchReturn(i)
    \/ SpikeTimerFire
    \/ PostBaseTimerFire
    \/ StubTick

StubSpec == Init /\ [][StubNext]_vars

\* C27: for a test without thresholds in which every request succeeds with
\* response time 100 ms, the completed state has totalRequests > 0,
\* errorRatePercentage = 0, p95ResponseTime = 100, legacy verdict OK,
\* thresholdVerdict PASS and safetyScore.label = SAFE.  (Rates and times of the
\* metrics are in hundredths.)
C27_StubRunIsSafe ==
    Started /\ State.status = "completed" =>
        /\ State.metrics.totalRequests > 0
        /\ State.metrics.errorRatePercentage = 0
        /\ State.metrics.p95ResponseTime = 100 * 100
        /\ State.verdict = "OK"
        /\ State.thresholdVerdict = Some("PASS")
        /\ IsSome(State.safetyScore)
        /\ Get(State.safetyScore).label = "SAFE"

\* A completed stub run of several requests, each of 100 ms, one of which had
\* to wait for the rate limiter.
C27_Witness ==
    /\ Started
    /\ State.status = "completed"
    /\ ~IsSome(State.config.thresholds)
    /\ Len(Results) > GLOBAL_RATE_LIMIT_RPS
    /\ \A i \in 1..Len(Results) :
          Results[i].success /\ Results[i].responseTimeMs = 100
    /\ State.metrics.totalRequests = Len(Results)

-----------------------------------------------------------------------------
(* Further properties of the engine, continued *)

Series == State.timeSeries

\* C31: in every reachable state of a test the time series is consistent with
\* the stored results: bucket times are strictly ascending and of the form
\* startedAt + k * 1000, every emitted bucket has successCount + failCount >= 1,
\* and the sums of successCount and of failCount over all buckets equal
\* metrics.successfulRequests and metrics.failedRequests.
C31_TimeSeriesConsistent ==
    Started =>
        /\ \A i, j \in 1..Len(Series) : i < j => Series[i].time < Series[j].time
        /\ \A i \in 1..Len(Series) :
              /\ Series[i].time >= State.startedAt
              /\ (Series[i].time - State.startedAt) % 1000 = 0
              /\ Series[i].successCount + Series[i].failCount >= 1
              /\ Series[i].successCount >= 0 /\ Series[i].failCount >= 0
        /\ SumSeq([i \in 1..Len(Series) |-> Series[i].successCount])
             = State.metrics.successfulRequests
        /\ SumSeq([i \in 1..Len(Series) |-> Series[i].failCount])
             = State.metrics.failedRequests
        /\ State.metrics.successfulRequests + State.metrics.failedRequests
             = Len(Results)

\* Results of both kinds in two buckets, with a second between them in which
\* no request started (its bucket is omitted).
C31_Witness ==
    /\ Started
    /\ Len(Series) >= 2
    /\ Series[2].time > Series[1].time + 1000
    /\ State.metrics.successfulRequests > 0
    /\ State.metrics.failedRequests > 0

\* Requester i runs from the head of its loop in the step: it is spawned, or
\* its mask sleep ends, or its request returns.
RunsFromLoopHead(i) ==
    /\ i \in DOMAIN workers'
    /\ workers'[i].pc # "unspawned"
    /\ \/ i \notin DOMAIN workers
       \/ /\ workers[i].pc \in {"unspawned", "mask", "fetch"}
          /\ workers'[i] # workers[i]

\* c(elapsed) at the loop-head check of the step.
ConcurrencyAtStep ==
    getConcurrencyAtWithDuration(Get(config').loadPattern, now - State'.startedAt,
                                 Get(config').durationSeconds,
                                 Get(config').concurrentUsers)

\* C32: a requester with index i starts a request in an iteration only if
\* i < c(elapsed) at that iteration's loop-head check; otherwise it sleeps
\* 100 ms and re-checks the stop flag and the end time without issuing a
\* request.  Requester 0 is never masked.
C32_MaskByIndex ==
    /\ [][Started' =>
            \A i \in DOMAIN workers' :
               RunsFromLoopHead(i) =>
                  /\ workers'[i].pc \in {"delay", "rate", "fetch"}
                       => i < ConcurrencyAtStep
                  /\ workers'[i].pc = "mask"
                       => /\ i >= ConcurrencyAtStep
                          /\ workers'[i].wake = now + 100
                  /\ workers'[i].pc = "done"
                       => stopRef' \/ ~(now < EndTime(Get(config'), State'.startedAt))
                  /\ workers'[i].pc \in {"mask", "delay", "rate", "fetch", "done"}]_vars
    /\ [][\A i \in DOMAIN workers :
             workers[i].pc = "mask" =>
                 /\ workers'[i].pc \in {"mask", "delay", "rate", "fetch", "done"}
                 /\ workers'[i] # workers[i] =>
                       Len(Results') = Len(Results) /\ now >= workers[i].wake]_vars
    /\ [](\A i \in DOMAIN workers : workers[i].pc = "mask" => i # 0)

\* Requester 1 is masked off while requester 0 has a request in flight.
C32_Witness ==
    /\ Started
    /\ 1 \in DOMAIN workers /\ workers[1].pc = "mask"
    /\ workers[0].pc = "fetch"

-----------------------------------------------------------------------------
(* The engine under spike patterns *)

\* One requester, the spike cohort of one over the whole test.
CfgSpikeWhole ==
    LoadTestConfig(1, 1, 1000, None,
                   Some(Pattern("spike", None, None, Some(2), Some(1))))

\* Two requesters and a spike concurrency below them.
CfgSpikeLow ==
    LoadTestConfig(2, 1, 1000, None,
                   Some(Pattern("spike", None, None, Some(1), Some(1))))

SpikeConfigs == {CfgSpike, CfgSpikeWhole, CfgSpikeLow, CfgFixed}

SpikeNext ==
    \/ \E cfg \in SpikeConfigs : StartLoadTest(cfg)
    \/ \E i \in DOMAIN workers : MaskWake(i)
    \/ \E i \in DOMAIN workers : RateWake(i)
    \/ \E i \in DOMAIN workers, outcome \in Outcomes : FetchReturn(i, outcome)
    \/ SpikeTimerFire
    \/ PostBaseTimerFire
    \/ Tick

\* The event loop keeps running callbacks while any is pending.
SpikeSpec == Init /\ [][SpikeNext]_vars /\ WF_vars(SpikeNext)

\* worker() has been called for requester i.
Spawned(i) == workers[i].pc # "unspawned"

\* S and the spike's start in ms after startedAt, for a spike pattern that
\* gives spikeConcurrency and spikeDurationSeconds.
SpikeS == Get(Get(Cfg.loadPattern).spikeConcurrency)
SpikeBegin ==
    LET d == Get(Get(Cfg.loadPattern).spikeDurationSeconds)
    IN  IF Cfg.durationSeconds - d > 0 THEN (Cfg.durationSeconds - d) * 1000 ELSE 0

\* The requesters a test ever has: max(N, S) under a spike pattern, else N.
RequestersExpected ==
    IF IsSpike(Cfg) /\ SpikeS > Cfg.concurrentUsers
    THEN SpikeS ELSE Cfg.concurrentUsers

\* C33: for a spike pattern with spikeConcurrency S > N exactly S - N extra
\* requesters, indexed N..S-1, are spawned, once, at max(0, D -
\* spikeDurationSeconds) seconds after start (the first instant the clock shows
\* at or after it); for every other pattern, or S <= N, none are spawned, so
\* the requesters ever spawned for a test number max(N, S), and no spike
\* requester issues a request before the spike window begins.
C33_SpikeCohort ==
    /\ [](Started =>
            /\ DOMAIN workers = 0..(RequestersExpected - 1)
            /\ \A i \in 0..(Cfg.concurrentUsers - 1) : Spawned(i)
            /\ \A i \in DOMAIN workers :
                  i >= Cfg.concurrentUsers /\ workers[i].pc = "fetch"
                  => workers[i].start >= State.startedAt + SpikeBegin)
    /\ [][Started /\ Started' =>
            \A i \in DOMAIN workers :
               /\ Spawned(i) => Spawned(i)'
               /\ ~Spawned(i) /\ Spawned(i)' =>
                     /\ now >= State.startedAt + SpikeBegin
                     /\ now - MsPerTick < State.startedAt + SpikeBegin
                     /\ \A j \in DOMAIN workers : Spawned(j)']_vars
    /\ []<>(~Started \/ \A i \in DOMAIN workers : Spawned(i))

\* The spike cohort has been spawned a second after the start and one of its
\* requesters has a request in flight.
C33_Witness ==
    /\ Started
    /\ IsSpike(Cfg) /\ SpikeS > Cfg.concurrentUsers
    /\ SpikeBegin > 0
    /\ \E i \in DOMAIN workers :
          /\ i >= Cfg.concurrentUsers
          /\ workers[i].pc = "fetch"
          /\ workers[i].start = State.startedAt + SpikeBegin

-----------------------------------------------------------------------------
(* Auto-stop and completion *)

\* No requester is running: each has returned or was never spawned.
NoRequesterRunning == \A i \in DOMAIN workers : workers[i].pc \in {"done", "unspawned"}

\* C34: auto-stop is an early completion for every pattern: after the stop flag
\* is set, the test reaches completed as soon as the requesters that were
\* running have finished their current iteration: no time passes between the
\* return of the last of them and the completion (completion does not wait for
\* the spike cohort's start time or for the configured end time).
C34_AutoStopCompletesAtOnce ==
    [][Started /\ stopRef /\ NoRequesterRunning /\ State.status = "running"
          => now' = now]_vars

\* The positions of the history that hold a record with the given id.
RecordsOf(id) == {i \in 1..Len(history) : history[i].id = id}

\* The record has the fields of the completed state.
RecordMatches(rec, st) ==
    /\ rec.id = st.id
    /\ rec.config = st.config
    /\ rec.metrics = st.metrics
    /\ rec.safetyScore = st.safetyScore
    /\ rec.verdict = st.verdict
    /\ rec.thresholdVerdict = st.thresholdVerdict
    /\ rec.verdictReasons = st.verdictReasons
    /\ rec.firstViolationAt = st.firstViolationAt
    /\ rec.startedAt = st.startedAt
    /\ rec.completedAt = st.completedAt
    /\ rec.timeSeries = st.timeSeries

\* C35: the transition to completed happens at most once per test and prepends
\* exactly one history record for it, whose metrics, safety score, both
\* verdicts, reasons, firstViolationAt, startedAt, completedAt and time series
\* equal those of the completed state; no test id ever occurs twice in the
\* history and no running test occurs in it.
C35_OneRecordPerCompletion ==
    /\ [][Started /\ Started' =>
            /\ State.status = "completed" => State'.status = "completed"
            /\ State.status = "running" /\ State'.status = "completed" =>
                  /\ Len(history') = Len(history) + 1
                  /\ RecordMatches(history'[1], State')
                  /\ \A i \in 1..Len(history) : history'[i + 1] = history[i]
            /\ State'.status = State.status /\ history' # history =>
                  history'[1].id # State.id]_vars
    /\ [](\A i, j \in 1..Len(history) : i # j => history[i].id # history[j].id)
    /\ [](Started /\ State.status = "running" => RecordsOf(State.id) = {})
    /\ [](Started /\ State.status = "completed" /\ client.calls < MAX_HISTORY =>
            /\ Cardinality(RecordsOf(State.id)) = 1
            /\ \A i \in RecordsOf(State.id) : RecordMatches(history[i], State))

\* The completed test's record, with a later test's record prepended to it.
C35_Witness ==
    /\ Started
    /\ State.status = "completed"
    /\ Len(Results) > 0
    /\ Len(history) = 2
    /\ RecordMatches(history[2], State)
    /\ history[1].id # State.id

-----------------------------------------------------------------------------
(* The legacy verdict *)

\* C36: after every aggregation step and after finalization the legacy verdict
\* matches the stored error rate: CRITICAL iff errorRatePercentage > 60,
\* UNSTABLE iff 30 < errorRatePercentage <= 60, OK iff errorRatePercentage <= 30
\* (exactly 60 is UNSTABLE, exactly 30 is OK).  (Rates are in hundredths.)
C36_LegacyVerdictBands ==
    probe.op \in {"updater", "final callback"} =>
        LET e == probe.out.metrics.errorRatePercentage
            v == probe.out.verdict
        IN  /\ v \in {"OK", "UNSTABLE", "CRITICAL"}
            /\ v = "CRITICAL" <=> e > 6000
            /\ v = "UNSTABLE" <=> (3000 < e /\ e <= 6000)
            /\ v = "OK" <=> e <= 3000
            /\ e = 6000 => v = "UNSTABLE"
            /\ e = 3000 => v = "OK"

\* An aggregation step that brings the error rate to exactly 60 %.
C36_Witness ==
    /\ probe.op = "updater"
    /\ probe.out.metrics.errorRatePercentage = 6000
    /\ probe.out.metrics.totalRequests = 5
    /\ probe.out.verdict = "UNSTABLE"

-----------------------------------------------------------------------------
(* Requests and the end time *)

\* C37: requesters send requests only until the end time: every request
\* recorded for a test was started (its timestamp) before
\* startedAt + durationSeconds*1000, also under fixed_rps inter-request delays
\* and rate-limiter backoff.
C37_StartsBeforeEndTime ==
    Started =>
        \A i \in 1..Len(Results) :
            Results[i].timestamp < EndTime(State.config, State.startedAt)

-----------------------------------------------------------------------------
(* The stored results *)

\* C38: requestResults is append-only and frozen at completion: every
\* aggregation step extends the list by exactly one element and leaves the
\* existing prefix unchanged, and once status = completed the results, metrics,
\* verdicts, time series and completedAt of the test never change again.
C38_AppendOnlyThenFrozen ==
    [][Started /\ Started' =>
          /\ Results' # Results =>
                /\ State.status = "running"
                /\ Len(Results') = Len(Results) + 1
                /\ SubSeq(Results', 1, Len(Results)) = Results
          /\ State.status = "completed" =>
                /\ State'.status = "completed"
                /\ Results' = Results
                /\ State'.metrics = State.metrics
                /\ State'.verdict = State.verdict
                /\ State'.thresholdVerdict = State.thresholdVerdict
                /\ State'.verdictReasons = State.verdictReasons
                /\ State'.safetyScore = State.safetyScore
                /\ State'.timeSeries = State.timeSeries
                /\ State'.completedAt = State.completedAt]_vars

\* A completed test holding two different results, read by the polling route
\* some time after its completion.
C38_Witness ==
    /\ Started
    /\ State.status = "completed"
    /\ Len(Results) >= 2
    /\ Results[1] # Results[2]
    /\ now > Get(State.completedAt)
    /\ probe.op = "run-headless"
    /\ probe.pc = "answered"

-----------------------------------------------------------------------------
(* The store with several tests *)

\* The number of startLoadTest calls considered.
MaxStarts == 2

\* The digits of base 36.
Base36Chars ==
    << "0", "1", "2", "3", "4", "5", "6", "7", "8", "9", "a", "b", "c", "d", "e",
       "f", "g", "h", "i", "j", "k", "l", "m", "n", "o", "p", "q", "r", "s", "t",
       "u", "v", "w", "x", "y", "z" >>

\* Values Math.random() may return, each given by the digits of its fraction
\* in base 36: 0, 0.5, and two values that agree in their first seven digits.
RandomDraws ==
    { <<>>,
      <<18>>,
      <<4, 15, 35, 34, 24, 8, 2, 22, 31>>,
      <<4, 15, 35, 34, 24, 8, 2, 20, 26>> }

\* x.toString(36) for 0 <= x < 1, as a sequence of characters.
toString36(digits) ==
    IF digits = <<>> THEN <<"0">>
    ELSE <<"0", ".">> \o [i \in 1..Len(digits) |-> Base36Chars[digits[i] + 1]]

\* str.slice(start, end) for 0 <= start <= end.
slice(str, start, end) ==
    SubSeq(str, start + 1, IF end < Len(str) THEN end ELSE Len(str))

\* generateId(): `test_${Date.now()}_${Math.random().toString(36).slice(2, 9)}`.
generateId(dateNow, random) == <<"test", dateNow, slice(toString36(random), 2, 9)>>

\* tests.set(id, state) on the Map of the store.
setTest(tests, id, state) ==
    [x \in DOMAIN tests \cup {id} |-> IF x = id THEN state ELSE tests[x]]

\* updateTest(id, updater) with the updater of worker().
updateTest(tests, id, result, dateNow) ==
    IF id \in DOMAIN tests
    THEN setTest(tests, id, Aggregate(tests[id], result, dateNow).state)
    ELSE tests

\* The Map of the store, and per startLoadTest call the id it returned, the
\* number of results its requesters have passed to updateTest, and whether its
\* final callback has run.
StoreTests == IF probe.op = "store" THEN probe.tests ELSE <<>>
StoreCalls == IF probe.op = "store" THEN probe.calls ELSE <<>>

\* startLoadTest(cfg): generate the id, register the initial state, return the
\* id.  (The pacing of the requesters it spawns is the subject of Spec; here
\* they appear through StoreAggregate.)
StoreStart(cfg, random) ==
    /\ probe.op \in {"none", "store"}
    /\ Len(StoreCalls) < MaxStarts
    /\ \E id \in {generateId(now, random)} :
         probe' = [op    |-> "store",
                   tests |-> setTest(StoreTests, id,
                                     [InitialState(cfg, now) EXCEPT !.id = id]),
                   calls |-> Append(StoreCalls,
                                    [id |-> id, sent |-> 0, settled |-> FALSE])]
    /\ UNCHANGED <<engineVars, history, client>>

\* A requester of the k-th call gets its response and runs updateTest.  (One
\* result per call is enough to tell whose state it reaches.)
StoreAggregate(k, outcome) ==
    /\ probe.op = "store"
    /\ k \in 1..Len(probe.calls)
    /\ ~probe.calls[k].settled
    /\ probe.calls[k].sent < 1
    /\ probe' = [probe EXCEPT
                   !.tests = updateTest(@, probe.calls[k].id,
                                        RequestResult(outcome, now, now), now),
                   !.calls[k].sent = @ + 1]
    /\ UNCHANGED <<engineVars, history, client>>

\* The final callback of the k-th call, after its requesters have returned.
StoreFinalize(k) ==
    /\ probe.op = "store"
    /\ k \in 1..Len(probe.calls)
    /\ ~probe.calls[k].settled
    /\ \E r \in {FinalizeStep(probe.tests[probe.calls[k].id], history, now)} :
         /\ probe' = [probe EXCEPT
                        !.tests = setTest(@, probe.calls[k].id, r.state),
                        !.calls[k].settled = TRUE]
         /\ history' = r.history
    /\ UNCHANGED <<engineVars, client>>

\* Time passes between calls and responses, once.
StoreTick ==
    /\ probe.op = "store"
    /\ now < 3 * MsPerTick
    /\ \E k \in 1..Len(probe.calls) : ~probe.calls[k].settled
    /\ now' = now + MsPerTick
    /\ UNCHANGED <<config, test, stopRef, workers, recentRequestTimestamps,
                   spikeTimer, sched, history, client, probe>>

StoreNext ==
    \/ \E random \in RandomDraws : StoreStart(CfgRps, random)
    \/ \E k \in 1..MaxStarts, outcome \in {"ok", "http"} : StoreAggregate(k, outcome)
    \/ \E k \in 1..MaxStarts : StoreFinalize(k)
    \/ StoreTick

StoreSpec == Init /\ [][StoreNext]_vars

\* C39: every startLoadTest call returns an id different from the id of every
\* test already in the store, so registering a new test never overwrites the
\* state of an existing (running or completed) test and requesters of two
\* tests never aggregate into the same state.
C39_FreshIds ==
    probe.op = "store" =>
        /\ \A i, j \in 1..Len(probe.calls) :
              i # j => probe.calls[i].id # probe.calls[j].id
        /\ Cardinality(DOMAIN probe.tests) = Len(probe.calls)
        /\ \A k \in 1..Len(probe.calls) :
              Len(probe.tests[probe.calls[k].id].requestResults)
                 = probe.calls[k].sent

-----------------------------------------------------------------------------
(* The rate limiter under lasting competition *)

\* Requesters of running tests that share the limiter: requester 0 and its
\* competitors, of the same test or of tests started one after another.
LimiterRequesters == 0..GLOBAL_RATE_LIMIT_RPS

\* A time read after MsPerTick has passed, measured from the new current
\* instant (the code uses times only through differences with Date.now()).
\* Times older than the window and one step are not told apart.
Earlier(t) == Max(t - MsPerTick, now - WINDOW_MS - MsPerTick)

\* Requester i calls runOneRequest for the first time.
LimiterArrive(i) ==
    /\ i \notin DOMAIN workers
    /\ \E r \in {runOneRequestEnter(CfgRps, recentRequestTimestamps, now)} :
         /\ workers' = [j \in DOMAIN workers \cup {i} |->
                          IF j = i THEN r.w ELSE workers[j]]
         /\ recentRequestTimestamps' = r.ts
    /\ UNCHANGED <<now, config, test, stopRef, spikeTimer, sched, history,
                   client, probe>>

\* The backoff sleep of requester i ends: runOneRequest checks again.
LimiterRateWake(i) ==
    /\ i \in DOMAIN workers
    /\ workers[i].pc = "rate" /\ now >= workers[i].wake
    /\ \E r \in {runOneRequestEnter(CfgRps, recentRequestTimestamps, now)} :
         /\ workers' = [workers EXCEPT ![i] = r.w]
         /\ recentRequestTimestamps' = r.ts
    /\ UNCHANGED <<now, config, test, stopRef, spikeTimer, sched, history,
                   client, probe>>

\* The fetch of requester i settles; its test still runs (or the next test has
\* taken its place), so the requester calls runOneRequest again.
LimiterFetchReturn(i) ==
    /\ i \in DOMAIN workers
    /\ workers[i].pc = "fetch"
    /\ \E r \in {runOneRequestEnter(CfgRps, recentRequestTimestamps, now)} :
         /\ workers' = [workers EXCEPT ![i] = r.w]
         /\ recentRequestTimestamps' = r.ts
    /\ UNCHANGED <<now, config, test, stopRef, spikeTimer, sched, history,
                   client, probe>>

\* Time passes while no timer is due.
LimiterTick ==
    /\ TimerPending
    /\ ~TimerDue
    /\ workers' = [j \in DOMAIN workers |->
                     [workers[j] EXCEPT !.wake = Earlier(@), !.start = Earlier(@)]]
    /\ recentRequestTimestamps' =
          [k \in 1..Len(recentRequestTimestamps) |-> Earlier(recentRequestTimestamps[k])]
    /\ UNCHANGED <<now, config, test, stopRef, spikeTimer, sched, history,
                   client, probe>>

LimiterNext ==
    \/ \E i \in LimiterRequesters : LimiterArrive(i)
    \/ \E i \in LimiterRequesters : LimiterRateWake(i)
    \/ \E i \in LimiterRequesters : LimiterFetchReturn(i)
    \/ LimiterTick

\* The event loop runs every due timer and every settled fetch, and time
\* passes.
LimiterSpec ==
    /\ Init
    /\ [][LimiterNext]_vars
    /\ WF_vars(LimiterTick)
    /\ \A i \in LimiterRequesters :
          WF_vars(LimiterRateWake(i)) /\ WF_vars(LimiterFetchReturn(i))

\* C40: no requester starves at the rate limiter: a requester that finds the
\* window full, sleeps 20 ms and retries is eventually admitted, even while
\* requesters of the same or of other tests keep competing for the slots.
C40_NoStarvation ==
    \A i \in LimiterRequesters :
        (i \in DOMAIN workers /\ workers[i].pc = "rate")
           ~> (i \in DOMAIN workers /\ workers[i].pc = "fetch")

====
